---- MODULE Spec2Model ----
(***************************************************************************)
(* LinkInJob: the synchronization engine of ApplicationsDB                 *)
(* (scripts/linkedin_applications_gui_sql.py) as a state machine over the  *)
(* persisted store (tables applications and status_pins) and the source    *)
(* directory of exported e-mail files.                                     *)
(*                                                                         *)
(* Strings are sequences of tokens (one-character strings, or a literal    *)
(* the code itself concatenates, such as "job::"), so that lower-casing,   *)
(* whitespace collapsing and key concatenation are computed and not        *)
(* assumed.                                                                *)
(*                                                                         *)
(* The functions of the parser package (parser/stage_detector.py,          *)
(* parser/extractors.py, parser/email_parser.py) are modelled on texts of  *)
(* single characters and run under SpecFunctions.                          *)
(***************************************************************************)
EXTENDS Integers, Sequences, FiniteSets, TLC

VARIABLES
  source,        \* the *.txt files of the source directory: file -> text
  applications,  \* table applications as the connection sees it:
                 \* record_key -> row
  status_pins,   \* table status_pins: record_key -> pinned_status
  committed,     \* the two tables as of the last commit: [apps, pins]
  lastOp,        \* history: the operation that produced this state
  created,       \* history: the keys whose row the last operation inserted
  deleted,       \* history: the keys whose row the last operation deleted
  fetched,       \* history: the keys the last operation fetched and translated
                 \* a description for (parse_from_job_link, translate_to_russian)
  call,          \* the function call a run made: [fn, arg]
  ret,           \* the value that call returned
  translator,    \* the translation state of the ApplicationsDB object:
                 \* [google_translate_blocked, translation_cache]
  rate_limited,  \* history: the providers that have answered HTTP 429
  rows,          \* table applications as a set of rows with their ids, for
                 \* the statement-level runs of two connections
  writers        \* the position and the local values of each connection's
                 \* running operation

vars == <<source, applications, status_pins, committed, lastOp, created, deleted,
          fetched, call, ret, translator, rate_limited, rows, writers>>

\* The variables of the store and its history.
storeVars == <<source, applications, status_pins, committed, lastOp, created,
               deleted, fetched>>

\* The variables of a parser run.
callVars == <<call, ret>>

\* The variables of the translator.
translatorVars == <<translator, rate_limited>>

\* The variables of the statement-level runs.
writerVars == <<rows, writers>>

\* What an operation of the window on the store leaves alone.
idleVars == <<callVars, translatorVars, writerVars>>

----------------------------------------------------------------------------
(* Program constants *)

STATUS_ORDER == <<"incoming", "applied", "rejected", "interview", "manual_sort", "archive">>

Statuses == {STATUS_ORDER[i] : i \in 1..Len(STATUS_ORDER)}

\* Python's None for an optional status (manual_status NULL, no pin).
None == "None"

\* Python truthiness of an optional string: None and "" are falsy.
Truthy(v) == v # None /\ v # ""

\* Python's `a or b` on optional strings.
Or(a, b) == IF Truthy(a) THEN a ELSE b

\* The one element of a singleton: binds a value that is computed once.
Only(S) == CHOOSE x \in S : TRUE

----------------------------------------------------------------------------
(* String helpers *)

EmptyStr == << >>

IsSpace(c) == c \in {" ", "\t", "\n"}

UpperCase == <<"A", "B", "C", "D", "E", "F", "G", "H", "I", "J", "K", "L", "M",
               "N", "O", "P", "Q", "R", "S", "T", "U", "V", "W", "X", "Y", "Z">>

LowerCase == <<"a", "b", "c", "d", "e", "f", "g", "h", "i", "j", "k", "l", "m",
               "n", "o", "p", "q", "r", "s", "t", "u", "v", "w", "x", "y", "z">>

\* The characters of the model's alphabet that str.lower() changes.
LowerMap ==
  [c \in {UpperCase[i] : i \in 1..Len(UpperCase)} |->
     LowerCase[CHOOSE i \in 1..Len(UpperCase) : UpperCase[i] = c]]

LowerOf(c) == IF c \in DOMAIN LowerMap THEN LowerMap[c] ELSE c

\* str.lower()
Lower(s) == [i \in 1..Len(s) |-> LowerOf(s[i])]

RECURSIVE LStrip(_)
LStrip(s) == IF s # << >> /\ IsSpace(Head(s)) THEN LStrip(Tail(s)) ELSE s

RECURSIVE RStrip(_)
RStrip(s) ==
  IF s # << >> /\ IsSpace(s[Len(s)]) THEN RStrip(SubSeq(s, 1, Len(s) - 1)) ELSE s

\* str.strip()
Strip(s) == RStrip(LStrip(s))

\* re.sub(r"\s+", " ", s)
RECURSIVE CollapseWs(_)
CollapseWs(s) ==
  IF s = << >> THEN << >>
  ELSE IF IsSpace(Head(s))
       THEN <<" ">> \o CollapseWs(LStrip(s))
       ELSE <<Head(s)>> \o CollapseWs(Tail(s))

\* The character class [0-9a-zа-яё֐-׿ ./-] of _key_part, on the
\* alphabet of the model.
KeyChars ==
  {"0", "1", "2", "3", "4", "5", "6", "7", "8", "9"} \cup
  {LowerCase[i] : i \in 1..Len(LowerCase)} \cup {" ", ".", "/", "-"}

_key_part(value) ==
  SelectSeq(CollapseWs(Lower(Strip(value))), LAMBDA c : c \in KeyChars)

----------------------------------------------------------------------------
(* Links.  A URL is the token sequence <<Host>> \o path \o query; the empty *)
(* sequence is the empty string (no link).                                 *)

Host == "https://www.linkedin.com/"

\* A regional LinkedIn host and a host that is not LinkedIn's.
HostIl == "https://il.linkedin.com/"
HostOther == "https://example.com/"

\* "linkedin.com" in host
IsLinkedInHost(h) == h \in {Host, HostIl}

Digits == {"0", "1", "2", "3", "4", "5", "6", "7", "8", "9"}

QueryTokens == {"?trk=abc", "?refId=x", "?currentJobId="}

RECURSIVE TakeDigits(_)
TakeDigits(s) ==
  IF s # << >> /\ Head(s) \in Digits THEN <<Head(s)>> \o TakeDigits(Tail(s)) ELSE << >>

\* re.search(r"/jobs/view/(\d+)", url); the second pattern of the code,
\* /comm/jobs/view/(\d+), matches only where the first one already has.
RECURSIVE extract_job_id(_)
extract_job_id(url) ==
  IF url = << >> THEN << >>
  ELSE IF Head(url) = "jobs/view/" /\ TakeDigits(Tail(url)) # << >>
       THEN TakeDigits(Tail(url))
       ELSE extract_job_id(Tail(url))

\* "/comm/jobs/view/" in link_url
HasCommJobsView(url) ==
  \E i \in 1..(Len(url) - 1) : url[i] = "comm/" /\ url[i + 1] = "jobs/view/"

\* The tokens of s before the query string.
RECURSIVE BeforeQuery(_)
BeforeQuery(s) ==
  IF s = << >> \/ Head(s) \in QueryTokens THEN << >>
  ELSE <<Head(s)>> \o BeforeQuery(Tail(s))

\* urlparse(link_url).path, without its leading "/"
UrlPath(url) == BeforeQuery(Tail(url))

IsSlug(t) ==
  t \notin {Host, HostIl, HostOther, "comm/", "company/", "jobs/view/", "jobs/search/", "/jobs", "/"}
             \cup QueryTokens \cup Digits

\* ^/(comm/)?company/([^/]+)/jobs/?$  and  ^/(comm/)?company/([^/]+)/?$
CompanyMatch(path) ==
  LET p == IF path # << >> /\ Head(path) = "comm/" THEN Tail(path) ELSE path
      rest == SubSeq(p, 3, Len(p))
  IN  /\ Len(p) >= 2
      /\ p[1] = "company/"
      /\ IsSlug(p[2])
      /\ rest \in {<< >>, <<"/">>, <<"/jobs">>, <<"/jobs", "/">>}

canonicalize_job_url(link_url) ==
  IF link_url # << >> /\ IsLinkedInHost(Head(link_url)) /\ CompanyMatch(UrlPath(link_url))
  THEN LET path == UrlPath(link_url)
           comm == IF Head(path) = "comm/" THEN <<"comm/">> ELSE << >>
           slug == IF Head(path) = "comm/" THEN path[3] ELSE path[2]
       IN  <<Host>> \o comm \o <<"company/", slug, "/jobs">>
  ELSE LET job_id == extract_job_id(link_url)
       IN  IF job_id = << >> THEN link_url
           ELSE IF HasCommJobsView(link_url)
                THEN <<Host, "comm/", "jobs/view/">> \o job_id \o <<"/">>
                ELSE <<Host, "jobs/view/">> \o job_id \o <<"/">>

record_key_for_link(link_url) ==
  LET job_id == extract_job_id(link_url)
  IN  IF job_id # << >> THEN <<"job::">> \o job_id ELSE <<"link::">> \o link_url

\* Mutant of record_key_for_offer: the key is taken from the link alone.
record_key_for_offer_link_only(company, role, location, link_url) ==
  record_key_for_link(link_url)

record_key_for_offer(company, role, location, link_url) ==
  LET company_k == _key_part(company)
      role_k == _key_part(role)
      location_k == _key_part(location)
  IN  IF company_k # << >> /\ role_k # << >>
      THEN <<"offer::">> \o company_k \o <<"::">> \o role_k \o <<"::">> \o location_k
      ELSE record_key_for_link(link_url)

----------------------------------------------------------------------------
(* Source items.  A text is what the extractors and the classifier read    *)
(* off one exported e-mail: the marker classes classify() looks for, the   *)
(* fallback company, and for every extracted job link the role, company    *)
(* and location found around it.                                           *)

Acme == <<"A", "c", "m", "e">>
AcmeWrapped == <<" ", "A", "C", "M", "E", " ">>
Beta == <<"B", "e", "t", "a">>
Unknown == <<"U", "n", "k", "n", "o", "w", "n">>
Dev == <<"D", "e", "v">>
DevWrapped == <<"d", "e", "v", "!">>

JobUrl1 == <<Host, "jobs/view/", "4", "1">>
JobUrl1Comm == <<Host, "comm/", "jobs/view/", "4", "1", "?trk=abc">>
JobUrl2 == <<Host, "jobs/view/", "7">>

Offer(link, role, company, location) ==
  [link |-> link, role |-> role, company |-> company, location |-> location]

\* stated_role is the role the e-mail names in its subject or body, outside
\* the surroundings of any link.
Text(noise, rejection, interview, application, fallback, offers) ==
  [noise |-> noise, rejection |-> rejection, interview |-> interview,
   application |-> application, company_fallback |-> fallback, offers |-> offers,
   stated_role |-> EmptyStr]

\* "Your application was sent to Acme": one posting, company and role found.
TextApplied ==
  Text(FALSE, FALSE, FALSE, TRUE, Acme, <<Offer(JobUrl1, Dev, Acme, EmptyStr)>>)

\* The same posting in another wrapping: different raw company/role text
\* and a rejection marker.
TextRejected ==
  Text(FALSE, TRUE, FALSE, FALSE, Unknown,
       <<Offer(JobUrl1Comm, DevWrapped, AcmeWrapped, EmptyStr)>>)

\* The same posting id, but no role recovered around the link.
TextBare ==
  Text(FALSE, FALSE, FALSE, FALSE, Unknown, <<Offer(JobUrl1, EmptyStr, Unknown, EmptyStr)>>)

\* A job-alert digest listing two postings.
TextDigest ==
  Text(TRUE, FALSE, FALSE, TRUE, Unknown,
       <<Offer(JobUrl1, EmptyStr, Unknown, EmptyStr), Offer(JobUrl2, Dev, Acme, EmptyStr)>>)

\* An interview invitation for the role Dev at Beta, without any job link.
TextNoLink ==
  [Text(FALSE, FALSE, TRUE, FALSE, Beta, << >>) EXCEPT !.stated_role = Dev]

Texts == {TextApplied, TextRejected, TextBare, TextDigest, TextNoLink}

\* Links without a job-posting id: a job search page and a company's jobs
\* page.
SearchUrl == <<Host, "jobs/search/", "?refId=x">>
CompanyJobsUrl == <<Host, "company/", "acme", "/jobs", "?trk=abc">>


\* An announcement of the opening Dev at Acme that links the search page.
TextSearch ==
  Text(FALSE, FALSE, FALSE, FALSE, Acme, <<Offer(SearchUrl, Dev, Acme, EmptyStr)>>)

\* The same opening announced again, in another wrapping and linking the
\* company's jobs page.
TextCompanyJobs ==
  Text(FALSE, FALSE, FALSE, TRUE, Unknown,
       <<Offer(CompanyJobsUrl, DevWrapped, AcmeWrapped, EmptyStr)>>)

\* Another opening at Acme behind the same search page.
TextSearchOps ==
  Text(FALSE, FALSE, FALSE, FALSE, Acme, <<Offer(SearchUrl, <<"O", "p", "s">>, Acme, EmptyStr)>>)

\* File names as the exporter writes them: "<YYYY-MM-DD>_<rest>".
DatedName(year_month, day, rest) == year_month \o day \o <<"_", rest>>

Jan2024 == <<"2", "0", "2", "4", "-", "0", "1", "-">>

FileA == DatedName(Jan2024, <<"0", "1">>, "a.txt")
FileB == DatedName(Jan2024, <<"0", "2">>, "b.txt")

\* File names, in the order sorted() gives them (all lower case; a digit
\* sorts before a letter).
FilePool == <<FileA, FileB, DatedName(Jan2024, <<"0", "3">>, "c.txt"), <<"d.txt">>>>

MaxFiles == 2

FileNames == SubSeq(FilePool, 1, MaxFiles)

\* A file of the source directory is identified by the position of its
\* name in that order.
FileSet == 1..Len(FileNames)

\* The contents each file of the directory takes in the model.
TextsOf(file) ==
  IF FileNames[file] = FileA THEN {TextApplied, TextBare}
  ELSE IF FileNames[file] = FileB THEN {TextRejected, TextDigest}
  ELSE {TextApplied}

\* The contents each file takes where the directory holds announcements
\* that link no posting.
ReannouncedTextsOf(file) ==
  IF FileNames[file] = FileB THEN {TextCompanyJobs, TextSearchOps} ELSE {TextSearch}

\* The contents each file takes where the oldest file is a digest.
DigestTextsOf(file) ==
  IF FileNames[file] = FileA THEN {TextDigest}
  ELSE IF FileNames[file] = FileB THEN {TextRejected, TextBare, TextNoLink}
  ELSE {TextBare}

SourceDir == "/archive/"

\* str(path)
PathOf(file) == <<SourceDir>> \o FileNames[file]

\* path.name.split("_", 1)[0]
RECURSIVE BeforeUnderscore(_)
BeforeUnderscore(name) ==
  IF name = << >> \/ Head(name) = "_" THEN << >>
  ELSE <<Head(name)>> \o BeforeUnderscore(Tail(name))

\* email_date of upsert_from_file: the file name's date prefix, or "".
EmailDate(file) ==
  LET date_match == BeforeUnderscore(FileNames[file])
  IN  IF Len(date_match) = 10 /\ Len(SelectSeq(date_match, LAMBDA c : c = "-")) = 2
      THEN date_match ELSE EmptyStr

----------------------------------------------------------------------------
(* Classification *)

\* Mutant of classify: the noise markers are not looked at.
classify_noise_ignored(text) ==
  <<text.application, text.rejection, text.interview>>

classify(text) ==
  IF text.noise THEN <<FALSE, FALSE, FALSE>>
  ELSE <<text.application, text.rejection, text.interview>>

\* The form in which extract_job_links returns a URL found in the text: a
\* link with a job-posting id is kept in canonical form, any other link raw.
LinkAsExtracted(url) ==
  LET canonical == canonicalize_job_url(url)
      job_id == IF extract_job_id(canonical) # << >>
                THEN extract_job_id(canonical) ELSE extract_job_id(url)
  IN  IF job_id # << >> THEN canonical ELSE url

\* extract_job_links: the links of the text's postings.  A text lists its
\* postings once each, in the order the function returns their links.
extract_job_links(text) ==
  [i \in 1..Len(text.offers) |-> LinkAsExtracted(text.offers[i].link)]

infer_status(text, links) ==
  LET c == classify(text)
  IN  IF c[2] THEN "rejected"
      ELSE IF c[3] THEN "interview"
      ELSE IF c[1] THEN "applied"
      ELSE IF links # << >> THEN "incoming"
      ELSE "manual_sort"

----------------------------------------------------------------------------
(* Description enrichment.  A description is a sequence of words; the      *)
(* posting page and the translation provider are collaborators that        *)
(* answer the same request the same way (job_cache and translation_cache   *)
(* memoize their answers).                                                 *)

\* The words of the model written in Cyrillic letters.
CyrillicWords == {"Ssylka", "vedet", "na", "stranitsu", "vakansiy", "poiska", "O", "vakansii"}


\* len(cyr) / max(1, len(letters)) >= 0.2, a word counting as one letter
_looks_russian(text) ==
  LET letters == SelectSeq(text, LAMBDA w : w \notin Digits)
      cyr == SelectSeq(text, LAMBDA w : w \in CyrillicWords)
  IN  /\ text # << >>
      /\ letters # << >>
      /\ 5 * Len(cyr) >= Len(letters)

\* The provider's Russian for the words the posting pages use.
RuWord(w) ==
  CASE w = "About" -> "O"
    [] w = "job" -> "vakansii"
    [] OTHER -> w

\* translate_to_russian(text), the provider answering.
translate_to_russian(text) ==
  IF text = << >> THEN text
  ELSE IF _looks_russian(text) THEN text
  ELSE [i \in 1..Len(text) |-> RuWord(text[i])]

\* r"/(?:comm/)?company/[^/]+/jobs/?(?:$|\?)" on link_url.lower()
IsCompanyJobsLink(link_url) ==
  \E i \in 1..Len(link_url) :
    /\ link_url[i] = "company/"
    /\ i + 2 <= Len(link_url)
    /\ IsSlug(link_url[i + 1])
    /\ link_url[i + 2] = "/jobs"
    /\ \/ i + 2 = Len(link_url)
       \/ link_url[i + 3] \in QueryTokens
       \/ (link_url[i + 3] = "/" /\ (i + 3 = Len(link_url) \/ link_url[i + 4] \in QueryTokens))

\* The About-the-job text parse_from_job_link returns for link_url (the
\* company, role and location it returns are the fallbacks it was given).
parse_from_job_link(link_url) ==
  LET job_id == extract_job_id(link_url)
  IN  IF link_url = << >> THEN <<"No", "LinkedIn", "job", "link", "found">>
      ELSE IF job_id = << >>
           THEN IF IsCompanyJobsLink(link_url)
                THEN <<"Ssylka", "vedet", "na", "stranitsu", "vakansiy">>
                ELSE IF \E i \in 1..Len(link_url) : link_url[i] = "jobs/search/"
                     THEN <<"Ssylka", "vedet", "na", "stranitsu", "poiska">>
                     ELSE <<"Failed", "to", "extract", "job", "ID">>
           ELSE <<"About", "job">> \o job_id

----------------------------------------------------------------------------
(* The store.  A db is the pair of tables behind self.conn,                *)
(* [apps |-> applications, pins |-> status_pins], with the keys the        *)
(* running operation has fetched a description for (fetched).              *)

EmptyTable == [k \in {} |-> None]

get_pinned_status(db, record_key) ==
  IF record_key \notin DOMAIN db.pins THEN None
  ELSE LET status == db.pins[record_key]
       IN  IF status \notin Statuses \/ status = "incoming" THEN None ELSE status

\* The ValueError branch is not reachable from the callers, which pass
\* members of STATUS_ORDER only.
set_pinned_status(db, record_key, status) ==
  IF status = None \/ status = "incoming"
  THEN [db EXCEPT !.pins = [k \in DOMAIN db.pins \ {record_key} |-> db.pins[k]]]
  ELSE [db EXCEPT !.pins = [k \in DOMAIN db.pins \cup {record_key} |->
                              IF k = record_key THEN status ELSE db.pins[k]]]

RECURSIVE SnapshotRows(_, _)
SnapshotRows(db, keys) ==
  IF keys = {} THEN db
  ELSE LET record_key == CHOOSE k \in keys : TRUE
           status == db.apps[record_key].current_status
           db2 == IF status \notin Statuses \/ status = "incoming" THEN db
                  ELSE set_pinned_status(db, record_key, status)
       IN  SnapshotRows(db2, keys \ {record_key})

snapshot_non_incoming_statuses(db) ==
  SnapshotRows(db, {k \in DOMAIN db.apps : db.apps[k].current_status # "incoming"})

\* Mutant of reset_all: the reset empties the pin table as well.
reset_all_with_pins(db) == [db EXCEPT !.apps = EmptyTable, !.pins = EmptyTable]

\* DELETE FROM applications
reset_all(db) == [db EXCEPT !.apps = EmptyTable]

\* Mutant of MergedManualStatus: the merge takes the pin only and forgets
\* the manual status stored on the row.
MergedManualStatus_pin_only(db, record_key) ==
  get_pinned_status(db, record_key)

\* Existing record: the manual status the UPDATE writes.
MergedManualStatus(db, record_key) ==
  LET existing_manual_status ==
        IF Truthy(db.apps[record_key].manual_status)
        THEN db.apps[record_key].manual_status ELSE None
      pinned_status == get_pinned_status(db, record_key)
  IN  Or(existing_manual_status, pinned_status)

\* Mutant of InsertedManualStatus: a new record never takes the pin.
InsertedManualStatus_none(db, record_key) == None

\* New record: the manual status the INSERT writes.
InsertedManualStatus(db, record_key) ==
  LET pinned_status == get_pinned_status(db, record_key)
  IN  pinned_status

\* Mutant of MergedAbout: the merge fetches and translates the description
\* again.
MergedAbout_refetched(db, record_key, key_link_url) ==
  LET about_en == parse_from_job_link(key_link_url)
  IN  [about_en |-> about_en, about_ru |-> translate_to_russian(about_en)]

\* Existing record: the descriptions the UPDATE writes.
MergedAbout(db, record_key, key_link_url) ==
  LET existing_about_en == db.apps[record_key].about_job_text_en
      existing_about_ru == db.apps[record_key].about_job_text_ru
      legacy_about == db.apps[record_key].about_job_text
      legacy == existing_about_en = << >> /\ existing_about_ru = << >> /\ legacy_about # << >>
  IN  [about_en |-> IF legacy /\ ~_looks_russian(legacy_about)
                    THEN legacy_about ELSE existing_about_en,
       about_ru |-> IF legacy /\ _looks_russian(legacy_about)
                    THEN legacy_about ELSE existing_about_ru]

\* New record: the descriptions the INSERT writes.
InsertedAbout(key_link_url) ==
  LET about_original == parse_from_job_link(key_link_url)
      about_en == about_original
      about_ru == IF about_en # << >> THEN translate_to_russian(about_en) ELSE << >>
  IN  [about_en |-> about_en, about_ru |-> about_ru]

\* The row an UPDATE or INSERT of upsert_from_file writes.
Row(file, status, offer, stored_link_url, manual_status, about_en, about_ru, legacy_about) ==
  [source_file |-> PathOf(file), email_date |-> EmailDate(file),
   company |-> offer.company, role |-> offer.role,
   location |-> offer.location, link_url |-> stored_link_url,
   about_job_text |-> IF about_ru # << >> THEN about_ru
                      ELSE IF about_en # << >> THEN about_en ELSE legacy_about,
   about_job_text_en |-> about_en, about_job_text_ru |-> about_ru,
   auto_status |-> status, manual_status |-> manual_status,
   current_status |-> Or(manual_status, status)]

\* One iteration of the loop over records in upsert_from_file: the row
\* written for record_key from the file with inferred status.
\* (parse_from_job_link keeps the fallback company, role and location.)
UpsertRow(db, record_key, file, status, offer, stored_link_url, key_link_url) ==
  IF record_key \in DOMAIN db.apps
  THEN LET about == MergedAbout(db, record_key, key_link_url)
       IN  Row(file, status, offer, stored_link_url, MergedManualStatus(db, record_key),
               about.about_en, about.about_ru, db.apps[record_key].about_job_text)
  ELSE LET about == InsertedAbout(key_link_url)
       IN  Row(file, status, offer, stored_link_url, InsertedManualStatus(db, record_key),
               about.about_en, about.about_ru, << >>)

\* The records list of upsert_from_file: one per link, or the single
\* ("", "") record of a text without links, for which
\* extract_company_role_location_for_link returns ("", fallback, "").
RecordsOf(text) ==
  LET links == extract_job_links(text)
  IN  IF links # << >>
      THEN [i \in 1..Len(links) |-> [text.offers[i] EXCEPT !.link = links[i]]]
      ELSE <<Offer(EmptyStr, EmptyStr, text.company_fallback, EmptyStr)>>

\* The identity key of one record of the file at path.
RecordKey(path, offer) ==
  LET raw_link_url == offer.link
      canonical_link == canonicalize_job_url(raw_link_url)
      key_link_url == IF canonical_link # << >> THEN canonical_link ELSE raw_link_url
  IN  IF key_link_url # << >>
      THEN record_key_for_offer(offer.company, offer.role, offer.location, key_link_url)
      ELSE path \o <<"::0::no-link">>

\* The loop over records in upsert_from_file.
RECURSIVE UpsertRecords(_, _, _, _, _)
UpsertRecords(db, file, status, records, touched_keys) ==
  IF records = << >> THEN [db |-> db, touched_keys |-> touched_keys]
  ELSE Only({
         LET offer == Head(records)
             raw_link_url == offer.link
             stored_link_url == IF raw_link_url # << >> THEN raw_link_url ELSE canonical_link
             key_link_url == IF canonical_link # << >> THEN canonical_link ELSE raw_link_url
             row == UpsertRow(db, record_key, file, status, offer, stored_link_url, key_link_url)
             db2 == [db EXCEPT !.apps = [k \in DOMAIN db.apps \cup {record_key} |->
                                           IF k = record_key THEN row ELSE db.apps[k]],
                               !.fetched = IF record_key \in DOMAIN db.apps
                                           THEN db.fetched ELSE db.fetched \cup {record_key}]
         IN  UpsertRecords(db2, file, status, Tail(records), touched_keys \cup {record_key}) :
         canonical_link \in {canonicalize_job_url(Head(records).link)},
         record_key \in {RecordKey(PathOf(file), Head(records))}})

\* Mutant of upsert_from_file: only the first record of the file is
\* written.
upsert_from_file_first_only(db, file, text) ==
  LET links == extract_job_links(text)
      status == infer_status(text, links)
  IN  UpsertRecords(db, file, status, <<Head(RecordsOf(text))>>, {})

\* upsert_from_file(path): the db afterwards and the returned touched_keys.
upsert_from_file(db, file, text) ==
  LET links == extract_job_links(text)
      status == infer_status(text, links)
  IN  UpsertRecords(db, file, status, RecordsOf(text), {})

\* priority_order of file_priority
priority_order(status) ==
  CASE status = "incoming" -> 0
    [] status = "applied" -> 1
    [] status = "rejected" -> 2
    [] status = "interview" -> 3
    [] status = "manual_sort" -> 4
    [] OTHER -> 50

\* A file of the directory whose read_text raises OSError (no permission,
\* a directory named *.txt): the value source holds for it.
Unreadable == [unreadable |-> TRUE]

\* (priority, path.name.lower()), the name standing by its position in the
\* order of the names; (99, name) when the file cannot be read
file_priority(src, file) ==
  IF src[file] = Unreadable THEN <<99, file>>
  ELSE <<priority_order(infer_status(src[file], extract_job_links(src[file]))), file>>

PriorityLess(a, b) == a[1] < b[1] \/ (a[1] = b[1] /\ a[2] < b[2])

\* source_dir.glob("*.txt"): the orders in which the directory may list
\* its files.
Listings(src) ==
  {listing \in [1..Cardinality(DOMAIN src) -> DOMAIN src] :
     \A n \in DOMAIN src : \E i \in 1..Cardinality(DOMAIN src) : listing[i] = n}

\* The listing in the order of the names.
Listing(src) ==
  CHOOSE listing \in Listings(src) :
    \A i \in 1..Len(listing), j \in 1..Len(listing) : i < j => listing[i] < listing[j]

\* Mutant of SortedFiles: the files are processed as the directory lists
\* them.
SortedFiles_as_listed(src, listing) == listing

\* files = sorted(glob); files.sort(key=file_priority).  No two files
\* have the same key, so the order of the listing is of no consequence
\* to a sort by key.
RECURSIVE SortedFiles(_, _)
SortedFiles(src, listing) ==
  IF listing = << >> THEN << >>
  ELSE LET first == CHOOSE i \in 1..Len(listing) :
                      \A j \in 1..Len(listing) \ {i} :
                        PriorityLess(file_priority(src, listing[i]),
                                     file_priority(src, listing[j]))
       IN  <<listing[first]>> \o
             SortedFiles(src, [i \in 1..(Len(listing) - 1) |->
                                 IF i < first THEN listing[i] ELSE listing[i + 1]])

\* The loop over the sorted files.  upsert_from_file raises at a file that
\* cannot be read (read_text, outside any try) and at a file of failing,
\* where the database refuses the first statement; nothing
\* catches the exception, so the loop ends there.
RECURSIVE UpsertFiles(_, _, _, _, _)
UpsertFiles(db, src, files, fresh_keys, failing) ==
  IF files = << >> THEN [db |-> db, fresh_keys |-> fresh_keys, raised |-> FALSE]
  ELSE IF src[Head(files)] = Unreadable \/ Head(files) \in failing
  THEN [db |-> db, fresh_keys |-> fresh_keys, raised |-> TRUE]
  ELSE LET r == upsert_from_file(db, Head(files), src[Head(files)])
       IN  UpsertFiles(r.db, src, Tail(files), fresh_keys \cup r.touched_keys, failing)

\* Mutant of DeleteStale: the tombstone step is skipped.
DeleteStale_keeps_all(db, fresh_keys) == db

\* The tombstone step of sync_source_dir: DELETE the known keys that are
\* not fresh.
DeleteStale(db, fresh_keys) ==
  LET known == DOMAIN db.apps
      to_delete == known \ fresh_keys
  IN  [db EXCEPT !.apps = [k \in known \ to_delete |-> db.apps[k]]]

\* One run of sync_source_dir over a directory that lists its files as
\* listing: the tables the connection sees afterwards, whether the run
\* raised, the order in which the files were taken, and the returned
\* (len(files), len(to_delete)).
SyncRun(db, src, listing, failing) ==
  Only({Only({IF r.raised
              THEN [db |-> r.db, raised |-> TRUE, files |-> files, result |-> << >>]
              ELSE [db |-> DeleteStale(r.db, r.fresh_keys), raised |-> FALSE,
                    files |-> files,
                    result |-> <<Len(files), Cardinality(DOMAIN r.db.apps \ r.fresh_keys)>>] :
              r \in {UpsertFiles(db, src, files, {}, failing)}}) :
        files \in {SortedFiles(src, listing)}})

\* sync_source_dir where every file is read and every statement succeeds.
sync_source_dir(db, src) == SyncRun(db, src, Listing(src), {}).db

\* Mutant of set_manual_status: the pin is not written.
set_manual_status_unpinned(db, record_key, status) ==
  LET auto_status == db.apps[record_key].auto_status
      current_status == Or(status, auto_status)
  IN  [db EXCEPT !.apps[record_key].manual_status = status,
                 !.apps[record_key].current_status = current_status]

\* Mutant of set_manual_status: current_status is left as it was.
set_manual_status_stale_current(db, record_key, status) ==
  LET auto_status == db.apps[record_key].auto_status
      current_status == Or(status, auto_status)
      db2 == [db EXCEPT !.apps[record_key].manual_status = status]
  IN  set_pinned_status(db2, record_key,
                        IF current_status # "incoming" THEN current_status ELSE None)

\* set_manual_status(app_id, status) on the row with key record_key.
set_manual_status(db, record_key, status) ==
  LET auto_status == db.apps[record_key].auto_status
      current_status == Or(status, auto_status)
      db2 == [db EXCEPT !.apps[record_key].manual_status = status,
                        !.apps[record_key].current_status = current_status]
  IN  set_pinned_status(db2, record_key,
                        IF current_status # "incoming" THEN current_status ELSE None)

\* MainWindow.sync_source: a full sync pass.
sync_source(db, src) ==
  sync_source_dir(snapshot_non_incoming_statuses(db), src)

\* Mutant of reset_db_and_sync: no snapshot before the rows are deleted.
reset_db_and_sync_no_snapshot(db, src) ==
  sync_source(reset_all(db), src)

\* MainWindow.reset_db_and_sync, once the user has confirmed.
reset_db_and_sync(db, src) ==
  sync_source(reset_all(snapshot_non_incoming_statuses(db)), src)

----------------------------------------------------------------------------
(* State machine *)

Db == [apps |-> applications, pins |-> status_pins, fetched |-> {}]

\* The store of a database file that was just created.
NewDb == [apps |-> EmptyTable, pins |-> EmptyTable, fetched |-> {}]

\* self.conn.commit(): the tables as the database file holds them from
\* now on.
commit(db) == [apps |-> db.apps, pins |-> db.pins]

\* ApplicationsDB.__init__: no provider is blocked, nothing is cached.
NewTranslator ==
  [translate_provider |-> "google_unofficial", google_translate_api_key |-> FALSE,
   google_translate_blocked |-> FALSE, translation_cache |-> EmptyTable]

\* No operation is running on either connection.
NoWriters == << >>

\* No parser run: the values of call and ret while the store operates.
NoCall == [fn |-> "none", arg |-> << >>]

NoRet == << >>

Init ==
  /\ source \in UNION {[d -> Texts] : d \in SUBSET FileSet}
  /\ \A n \in DOMAIN source : source[n] \in TextsOf(n)
  /\ applications = EmptyTable
  /\ status_pins = EmptyTable
  /\ committed = commit(NewDb)
  /\ lastOp = "init"
  /\ created = {}
  /\ deleted = {}
  /\ fetched = {}
  /\ call = NoCall
  /\ ret = NoRet
  /\ translator = NewTranslator
  /\ rate_limited = {}
  /\ rows = {}
  /\ writers = NoWriters

\* The environment writes (adds or rewrites) one exported e-mail file.
WriteFile ==
  \E n \in FileSet :
    \E t \in TextsOf(n) :
      /\ n \in DOMAIN source => source[n] # t
      /\ source' = [m \in DOMAIN source \cup {n} |-> IF m = n THEN t ELSE source[m]]
      /\ lastOp' = "write_file"
      /\ created' = {} /\ deleted' = {} /\ fetched' = {}
      /\ UNCHANGED <<applications, status_pins, committed>>
      /\ UNCHANGED idleVars

\* The environment removes one file from the source directory.
RemoveFile ==
  \E n \in DOMAIN source :
    /\ source' = [m \in DOMAIN source \ {n} |-> source[m]]
    /\ lastOp' = "remove_file"
    /\ created' = {} /\ deleted' = {} /\ fetched' = {}
    /\ UNCHANGED <<applications, status_pins, committed>>
    /\ UNCHANGED idleVars

Snapshot ==
  \E db \in {snapshot_non_incoming_statuses(Db)} :
      /\ applications' = db.apps
      /\ status_pins' = db.pins
      /\ committed' = commit(db)
      /\ lastOp' = "snapshot"
      /\ created' = {} /\ deleted' = {}
      /\ fetched' = db.fetched
      /\ UNCHANGED source
      /\ UNCHANGED idleVars

SyncSourceDir ==
  \E db \in {sync_source_dir(Db, source)} :
      /\ applications' = db.apps
      /\ status_pins' = db.pins
      /\ committed' = commit(db)
      /\ lastOp' = "sync_source_dir"
      /\ created' = DOMAIN db.apps \ DOMAIN applications
      /\ deleted' = DOMAIN applications \ DOMAIN db.apps
      /\ fetched' = db.fetched
      /\ UNCHANGED source
      /\ UNCHANGED idleVars

ResetAll ==
  \E db \in {reset_all(Db)} :
      /\ applications' = db.apps
      /\ status_pins' = db.pins
      /\ committed' = commit(db)
      /\ lastOp' = "reset_all"
      /\ created' = {}
      /\ deleted' = DOMAIN applications
      /\ fetched' = db.fetched
      /\ UNCHANGED source
      /\ UNCHANGED idleVars

\* The statuses the user hands to set_manual_status: None is the
\* "Reset to Auto" button.
ManualChoices == {None, "incoming", "archive"}

SetManualStatusOn(record_key, status) ==
  \E db \in {set_manual_status(Db, record_key, status)} :
      /\ applications' = db.apps
      /\ status_pins' = db.pins
      /\ committed' = commit(db)
      /\ lastOp' = "set_manual_status"
      /\ created' = {} /\ deleted' = {}
      /\ fetched' = db.fetched
      /\ UNCHANGED source
      /\ UNCHANGED idleVars

SetManualStatus ==
  \E record_key \in DOMAIN applications, status \in ManualChoices :
    SetManualStatusOn(record_key, status)

SyncSource ==
  \E db \in {sync_source(Db, source)} :
      /\ applications' = db.apps
      /\ status_pins' = db.pins
      /\ committed' = commit(db)
      /\ lastOp' = "sync_source"
      /\ created' = DOMAIN db.apps \ DOMAIN applications
      /\ deleted' = DOMAIN applications \ DOMAIN db.apps
      /\ fetched' = db.fetched
      /\ UNCHANGED source
      /\ UNCHANGED idleVars

ResetDbAndSync ==
  \E db \in {reset_db_and_sync(Db, source)} :
      /\ applications' = db.apps
      /\ status_pins' = db.pins
      /\ committed' = commit(db)
      /\ lastOp' = "reset_db_and_sync"
      /\ created' = DOMAIN db.apps
      /\ deleted' = DOMAIN applications
      /\ fetched' = db.fetched
      /\ UNCHANGED source
      /\ UNCHANGED idleVars

Next ==
  \/ WriteFile
  \/ RemoveFile
  \/ Snapshot
  \/ SyncSourceDir
  \/ ResetAll
  \/ SetManualStatus
  \/ SyncSource
  \/ ResetDbAndSync

Spec == Init /\ [][Next]_vars

\* The window's operations without the destructive reset: rows disappear
\* only through the tombstone step of a sync pass.
NextPass ==
  \/ WriteFile
  \/ RemoveFile
  \/ SetManualStatus
  \/ SyncSource

SpecPass == Init /\ [][NextPass]_vars

\* Runs in which set_manual_status is never called.
NextNoManual ==
  \/ WriteFile
  \/ RemoveFile
  \/ Snapshot
  \/ SyncSourceDir
  \/ ResetAll
  \/ SyncSource
  \/ ResetDbAndSync

SpecNoManual == Init /\ [][NextNoManual]_vars

\* The store of a fresh database beside a directory whose files take
\* their contents from texts.
InitWith(texts) ==
  /\ source \in UNION {[d -> UNION {texts[n] : n \in FileSet}] : d \in SUBSET FileSet}
  /\ \A n \in DOMAIN source : source[n] \in texts[n]
  /\ applications = EmptyTable
  /\ status_pins = EmptyTable
  /\ committed = commit(NewDb)
  /\ lastOp = "init"
  /\ created = {}
  /\ deleted = {}
  /\ fetched = {}
  /\ call = NoCall
  /\ ret = NoRet
  /\ translator = NewTranslator
  /\ rate_limited = {}
  /\ rows = {}
  /\ writers = NoWriters

\* The environment writes (adds or rewrites) one file with a content from
\* texts.
WriteWith(texts) ==
  \E n \in FileSet :
    \E t \in texts[n] :
      /\ n \in DOMAIN source => source[n] # t
      /\ source' = [m \in DOMAIN source \cup {n} |-> IF m = n THEN t ELSE source[m]]
      /\ lastOp' = "write_file"
      /\ created' = {} /\ deleted' = {} /\ fetched' = {}
      /\ UNCHANGED <<applications, status_pins, committed>>
      /\ UNCHANGED idleVars

\* A directory of announcements that link no posting.
InitReannounce == InitWith([file \in FileSet |-> ReannouncedTextsOf(file)])

WriteReannounced == WriteWith([file \in FileSet |-> ReannouncedTextsOf(file)])

NextReannounce ==
  \/ WriteReannounced
  \/ RemoveFile
  \/ SetManualStatus
  \/ SyncSource
  \/ ResetDbAndSync

SpecReannounce == InitReannounce /\ [][NextReannounce]_vars

\* A directory whose oldest file is a digest of two postings.
InitDigest == InitWith([file \in FileSet |-> DigestTextsOf(file)])

WriteDigestDir == WriteWith([file \in FileSet |-> DigestTextsOf(file)])

NextDigest ==
  \/ WriteDigestDir
  \/ RemoveFile
  \/ SetManualStatus
  \/ SyncSourceDir
  \/ SyncSource

SpecDigest == InitDigest /\ [][NextDigest]_vars

----------------------------------------------------------------------------
(* Failures in a sync pass.  A file of the directory may be unreadable, and *)
(* the database may refuse a statement of one file's upsert (disk full,     *)
(* locked file).  call holds the files at which the database refuses, ret   *)
(* what sync_source_dir did: whether it raised and what it returned.        *)

\* The contents each file takes where files may be unreadable.
FaultyTextsOf(file) ==
  IF FileNames[file] = FileA THEN {TextApplied, Unreadable}
  ELSE IF FileNames[file] = FileB THEN {TextRejected, Unreadable}
  ELSE {TextBare}

InitFaults == InitWith([file \in FileSet |-> FaultyTextsOf(file)])

WriteFaulty == WriteWith([file \in FileSet |-> FaultyTextsOf(file)])

\* MainWindow.sync_source: the snapshot commits; sync_source_dir commits
\* when it reaches its last statement; an exception is shown to the user
\* ("Sync failed") and nothing is rolled back.
SyncSourceRun ==
  \E failing \in {{}} \cup {{file} : file \in DOMAIN source} :
    \E snapshot \in {snapshot_non_incoming_statuses(Db)} :
      \E run \in {SyncRun(snapshot, source, Listing(source), failing)} :
        /\ applications' = run.db.apps
        /\ status_pins' = run.db.pins
        /\ committed' = IF run.raised THEN commit(snapshot) ELSE commit(run.db)
        /\ lastOp' = "sync_source"
        /\ created' = DOMAIN run.db.apps \ DOMAIN applications
        /\ deleted' = DOMAIN applications \ DOMAIN run.db.apps
        /\ fetched' = run.db.fetched
        /\ call' = [fn |-> "sync_source_dir", arg |-> failing]
        /\ ret' = [raised |-> run.raised, result |-> run.result]
        /\ UNCHANGED <<source, translatorVars, writerVars>>

NextFaults ==
  \/ WriteFaulty
  \/ RemoveFile
  \/ SetManualStatus
  \/ SyncSourceRun

SpecFaults == InitFaults /\ [][NextFaults]_vars

----------------------------------------------------------------------------
(* The order of a pass.  The directory lists its files in an order of its  *)
(* own; call holds that listing, ret the order in which sync_source_dir    *)
(* took the files and what it returned.                                    *)

SyncSourceDirListed ==
  \E listing \in Listings(source) :
    \E run \in {SyncRun(Db, source, listing, {})} :
      /\ applications' = run.db.apps
      /\ status_pins' = run.db.pins
      /\ committed' = commit(run.db)
      /\ lastOp' = "sync_source_dir"
      /\ created' = DOMAIN run.db.apps \ DOMAIN applications
      /\ deleted' = DOMAIN applications \ DOMAIN run.db.apps
      /\ fetched' = run.db.fetched
      /\ call' = [fn |-> "sync_source_dir", arg |-> listing]
      /\ ret' = [raised |-> run.raised, files |-> run.files, result |-> run.result]
      /\ UNCHANGED <<source, translatorVars, writerVars>>

NextOrder ==
  \/ WriteFile
  \/ RemoveFile
  \/ SyncSourceDirListed

SpecOrder == Init /\ [][NextOrder]_vars

----------------------------------------------------------------------------
(* Two connections to one database file, statement by statement.  rows and *)
(* status_pins are the committed tables; a connection that has written     *)
(* holds the write lock and its pending tables (view) until it commits, and *)
(* a SELECT of the other connection sees the committed tables.  Each       *)
(* connection runs the upsert of one record of upsert_from_file (as the     *)
(* first write of its pass) or set_manual_status.                          *)

Conns == {1, 2}

\* The identity key both connections work on.
WriterKey == RecordKey(PathOf(1), RecordsOf(TextApplied)[1])

\* fetchone() found nothing.
NoRow == [id |-> 0]

\* A connection between operations.  seen and between are history: the
\* upserts that had read their row when this set_manual_status wrote, and
\* the status a set_manual_status committed after this upsert read its row.
Idle ==
  [op |-> "none", pc |-> "idle", status |-> None, row |-> NoRow, pinned |-> None,
   view |-> [apps |-> {}, pins |-> EmptyTable], seen |-> {}, between |-> << >>]

\* What a SELECT sees.
Tables == [apps |-> rows, pins |-> status_pins]

\* No other connection holds the write lock.
LockFree(c) == \A d \in Conns \ {c} : writers[d].pc # "commit"

\* Mutant of InsertOnConflict: a plain INSERT into a table without the
\* UNIQUE constraint.
InsertOnConflict_plain(apps, record_key, status, manual_status) ==
  apps \cup {[id |-> Cardinality(apps) + 1, record_key |-> record_key,
              auto_status |-> status, manual_status |-> manual_status,
              current_status |-> Or(manual_status, status)]}

\* INSERT INTO applications ... ON CONFLICT(record_key) DO UPDATE SET
\* auto_status = excluded.auto_status,
\* current_status = COALESCE(applications.manual_status, excluded.auto_status)
InsertOnConflict(apps, record_key, status, manual_status) ==
  IF \E r \in apps : r.record_key = record_key
  THEN {IF r.record_key = record_key
        THEN [r EXCEPT !.auto_status = status,
                       !.current_status = IF r.manual_status # None
                                          THEN r.manual_status ELSE status]
        ELSE r : r \in apps}
  ELSE apps \cup {[id |-> Cardinality(apps) + 1, record_key |-> record_key,
                   auto_status |-> status, manual_status |-> manual_status,
                   current_status |-> Or(manual_status, status)]}

\* The write of the upsert: UPDATE ... WHERE record_key = ? when the SELECT
\* had found a row, the INSERT otherwise.
UpsertStatement(tables, w) ==
  IF w.row # NoRow
  THEN LET existing_manual_status ==
             IF Truthy(w.row.manual_status) THEN w.row.manual_status ELSE None
           manual_status == Or(existing_manual_status, w.pinned)
       IN  [tables EXCEPT !.apps =
              {IF r.record_key = WriterKey
               THEN [r EXCEPT !.auto_status = w.status,
                              !.manual_status = manual_status,
                              !.current_status = Or(manual_status, w.status)]
               ELSE r : r \in tables.apps}]
  ELSE [tables EXCEPT !.apps = InsertOnConflict(tables.apps, WriterKey, w.status, w.pinned)]

\* The writes of set_manual_status: UPDATE ... WHERE id = ?, then
\* set_pinned_status.
ManualStatusStatements(tables, w) ==
  LET current_status == Or(w.status, w.row.auto_status)
      updated == [tables EXCEPT !.apps =
                    {IF r.id = w.row.id
                     THEN [r EXCEPT !.manual_status = w.status,
                                    !.current_status = current_status]
                     ELSE r : r \in tables.apps}]
  IN  set_pinned_status(updated, w.row.record_key,
                        IF current_status # "incoming" THEN current_status ELSE None)

InitWriters ==
  /\ source = EmptyTable
  /\ applications = EmptyTable
  /\ status_pins = EmptyTable
  /\ committed = commit(NewDb)
  /\ lastOp = "init"
  /\ created = {} /\ deleted = {} /\ fetched = {}
  /\ call = NoCall
  /\ ret = NoRet
  /\ translator = NewTranslator
  /\ rate_limited = {}
  /\ rows = {}
  /\ writers = [c \in Conns |-> Idle]

\* What a statement of a connection leaves alone.
quietVars == <<source, applications, committed, lastOp, created, deleted, fetched,
               callVars, translatorVars>>

\* A sync pass reaches the record: status is the one it inferred.
BeginUpsert ==
  \E c \in Conns, status \in {"applied", "rejected"} :
    /\ writers[c].op = "none"
    /\ writers' = [writers EXCEPT ![c] =
                     [Idle EXCEPT !.op = "upsert", !.pc = "select", !.status = status]]
    /\ UNCHANGED <<rows, status_pins, quietVars>>

\* The user picks a status for a row of the list.
BeginSetManualStatus ==
  \E c \in Conns, r \in rows, status \in {None, "archive", "rejected"} :
    /\ writers[c].op = "none"
    /\ writers' = [writers EXCEPT ![c] =
                     [Idle EXCEPT !.op = "set_manual_status", !.pc = "select",
                                  !.status = status, !.row = [id |-> r.id]]]
    /\ UNCHANGED <<rows, status_pins, quietVars>>

\* SELECT ... WHERE record_key = ? of the upsert, SELECT ... WHERE id = ?
\* of set_manual_status ("Application not found" without a row).
SelectRow ==
  \E c \in Conns :
    /\ writers[c].pc = "select"
    /\ \E found \in {{r \in rows : IF writers[c].op = "upsert"
                                   THEN r.record_key = WriterKey
                                   ELSE r.id = writers[c].row.id}} :
         writers' = [writers EXCEPT ![c] =
                       IF found = {} /\ writers[c].op = "set_manual_status" THEN Idle
                       ELSE [@ EXCEPT !.row = IF found = {} THEN NoRow
                                              ELSE CHOOSE r \in found : TRUE,
                                      !.pc = IF writers[c].op = "upsert"
                                             THEN "pin" ELSE "write"]]
    /\ UNCHANGED <<rows, status_pins, quietVars>>

\* get_pinned_status(record_key) of the upsert.
ReadPin ==
  \E c \in Conns :
    /\ writers[c].pc = "pin"
    /\ writers' = [writers EXCEPT ![c] =
                     [@ EXCEPT !.pinned = get_pinned_status(Tables, WriterKey),
                               !.pc = "write"]]
    /\ UNCHANGED <<rows, status_pins, quietVars>>

\* The first write of the operation takes the write lock.
WriteRows ==
  \E c \in Conns :
    /\ writers[c].pc = "write"
    /\ LockFree(c)
    /\ writers' = [writers EXCEPT ![c] =
                     [@ EXCEPT !.view = IF writers[c].op = "upsert"
                                        THEN UpsertStatement(Tables, writers[c])
                                        ELSE ManualStatusStatements(Tables, writers[c]),
                               !.seen = {d \in Conns \ {c} :
                                           /\ writers[c].op = "set_manual_status"
                                           /\ writers[d].op = "upsert"
                                           /\ writers[d].pc \in {"pin", "write"}
                                           /\ writers[d].row # NoRow
                                           /\ writers[d].row.id = writers[c].row.id},
                               !.pc = "commit"]]
    /\ UNCHANGED <<rows, status_pins, quietVars>>

\* The other connection holds the lock for longer than the busy timeout:
\* sqlite3.OperationalError, "database is locked".
Locked ==
  \E c \in Conns :
    /\ writers[c].pc = "write"
    /\ ~LockFree(c)
    /\ writers' = [writers EXCEPT ![c] = Idle]
    /\ UNCHANGED <<rows, status_pins, quietVars>>

\* self.conn.commit()
CommitRows ==
  \E c \in Conns :
    /\ writers[c].pc = "commit"
    /\ rows' = writers[c].view.apps
    /\ status_pins' = writers[c].view.pins
    /\ writers' = [d \in Conns |->
                     IF d = c THEN Idle
                     ELSE IF d \in writers[c].seen /\ writers[d].pc \in {"pin", "write"}
                     THEN [writers[d] EXCEPT !.between = <<writers[c].status>>]
                     ELSE writers[d]]
    /\ UNCHANGED quietVars

NextWriters ==
  \/ BeginUpsert
  \/ BeginSetManualStatus
  \/ SelectRow
  \/ ReadPin
  \/ WriteRows
  \/ Locked
  \/ CommitRows

SpecWriters == InitWriters /\ [][NextWriters]_vars

----------------------------------------------------------------------------
(* The translation providers.  translator holds the configuration and the  *)
(* mutable state of the ApplicationsDB object; the network is an oracle     *)
(* that gives, for every provider, the answers to the successive requests   *)
(* of one call.  call holds the text, ret the value returned and the        *)
(* requests the call sent.  A text is the sequence of its words, which     *)
(* translate_to_russian joins by single spaces into the chunk it hands to  *)
(* _translate_fragment_to_russian; a text of the model fits one chunk of   *)
(* 450 characters and TRANSLATE_TO_RU is on.                                *)

\* What a provider answers to one request: a translation, a well-formed
\* reply without translated text, HTTP 429, or another failure (time-out,
\* HTTP 5xx, malformed JSON).
Answers == {"ok", "empty", "429", "error"}

\* The translation a provider returns for chunk.
Translated(provider, chunk) == <<"ru", provider>> \o chunk

\* range(3) in _translate_chunk_google_unofficial
MaxAttempts == 3

\* What one provider call hands back: the text returned (when it did not
\* raise), the requests sent, and google_translate_blocked afterwards.
Outcome(raised, value, requests, blocked) ==
  [raised |-> raised, value |-> value, requests |-> requests, blocked |-> blocked]

\* _translate_chunk_google_api and _translate_chunk_mymemory: one request.
\* An empty translatedText is the chunk itself for google_api and a
\* RuntimeError for mymemory.
translate_chunk_once(provider, chunk, answer, blocked) ==
  LET requests == <<[provider |-> provider, answer |-> answer]>>
  IN  IF answer = "ok" THEN Outcome(FALSE, Translated(provider, chunk), requests, blocked)
      ELSE IF answer = "empty" /\ provider = "google_api"
      THEN Outcome(FALSE, chunk, requests, blocked)
      ELSE Outcome(TRUE, << >>, requests, blocked)

\* Mutant of UnofficialAttempts: HTTP 429 is retried like any other
\* failure and does not block the provider.
RECURSIVE UnofficialAttempts_retry_429(_, _, _, _)
UnofficialAttempts_retry_429(chunk, answers, attempt, requests) ==
  LET answer == answers[attempt + 1]
      sent == Append(requests, [provider |-> "google_unofficial", answer |-> answer])
  IN  IF answer = "ok"
      THEN Outcome(FALSE, Translated("google_unofficial", chunk), sent, FALSE)
      ELSE IF answer = "empty" THEN Outcome(FALSE, chunk, sent, FALSE)
      ELSE IF attempt < MaxAttempts - 1
      THEN UnofficialAttempts_retry_429(chunk, answers, attempt + 1, sent)
      ELSE Outcome(TRUE, << >>, sent, FALSE)

\* The loop "for attempt in range(3)" of _translate_chunk_google_unofficial
\* from attempt on.
RECURSIVE UnofficialAttempts(_, _, _, _)
UnofficialAttempts(chunk, answers, attempt, requests) ==
  LET answer == answers[attempt + 1]
      sent == Append(requests, [provider |-> "google_unofficial", answer |-> answer])
  IN  IF answer = "ok"
      THEN Outcome(FALSE, Translated("google_unofficial", chunk), sent, FALSE)
      ELSE IF answer = "empty" THEN Outcome(FALSE, chunk, sent, FALSE)
      ELSE IF answer = "429" THEN Outcome(TRUE, << >>, sent, TRUE)
      ELSE IF attempt < MaxAttempts - 1
      THEN UnofficialAttempts(chunk, answers, attempt + 1, sent)
      ELSE Outcome(TRUE, << >>, sent, FALSE)

\* _translate_chunk_google_unofficial: no request once blocked.
_translate_chunk_google_unofficial(chunk, answers, blocked) ==
  IF blocked THEN Outcome(TRUE, << >>, << >>, TRUE)
  ELSE UnofficialAttempts(chunk, answers, 0, << >>)

\* Mutant of provider_order: the configured provider is not preferred.
provider_order_fixed(tr) == <<"mymemory", "google_unofficial", "google_api">>

\* provider_order of translate_chunk
provider_order(tr) ==
  IF tr.translate_provider = "google_api"
  THEN <<"google_api", "google_unofficial", "mymemory">>
  ELSE <<"google_unofficial", "google_api", "mymemory">>

\* The loop over provider_order in translate_chunk: the first provider that
\* does not raise returns; google_api is passed over without a key.
RECURSIVE translate_chunk(_, _, _, _, _, _)
translate_chunk(tr, chunk, net, providers, requests, blocked) ==
  IF providers = << >> THEN Outcome(TRUE, << >>, requests, blocked)
  ELSE LET provider == Head(providers)
       IN  IF provider = "google_api" /\ ~tr.google_translate_api_key
           THEN translate_chunk(tr, chunk, net, Tail(providers), requests, blocked)
           ELSE LET r == IF provider = "google_unofficial"
                         THEN _translate_chunk_google_unofficial(chunk, net[provider], blocked)
                         ELSE translate_chunk_once(provider, chunk, net[provider][1], blocked)
                IN  IF r.raised
                    THEN translate_chunk(tr, chunk, net, Tail(providers),
                                         requests \o r.requests, r.blocked)
                    ELSE Outcome(FALSE, r.value, requests \o r.requests, r.blocked)

\* "http://" in normalized.lower() or "https://" in normalized.lower()
HasUrl(fragment) == \E i \in 1..Len(fragment) : fragment[i] \in {"http://", "https://"}

\* _translate_fragment_to_russian(fragment): the value, the requests sent
\* and the translator afterwards.
_translate_fragment_to_russian(tr, fragment, net) ==
  IF fragment = << >> \/ _looks_russian(fragment) \/ HasUrl(fragment)
  THEN [tr |-> tr, value |-> fragment, requests |-> << >>]
  ELSE IF fragment \in DOMAIN tr.translation_cache
  THEN [tr |-> tr, value |-> tr.translation_cache[fragment], requests |-> << >>]
  ELSE LET r == translate_chunk(tr, fragment, net, provider_order(tr), << >>,
                                tr.google_translate_blocked)
           result == IF r.raised \/ r.value = << >> THEN fragment ELSE r.value
       IN  [tr |-> [tr EXCEPT !.google_translate_blocked = r.blocked,
                              !.translation_cache =
                                [f \in DOMAIN tr.translation_cache \cup {fragment} |->
                                   IF f = fragment THEN result ELSE tr.translation_cache[f]]],
            value |-> result, requests |-> r.requests]

\* translate_to_russian(text) with the providers behind it.
translate_text(tr, text, net) ==
  IF text = << >> \/ _looks_russian(text)
  THEN [tr |-> tr, value |-> text, requests |-> << >>]
  ELSE _translate_fragment_to_russian(tr, text, net)

\* The descriptions handed to translate_to_russian.
Descriptions ==
  {<<"About", "job">>, <<"Senior", "role">>, <<"O", "vakansii">>,
   <<"See", "https://", "x.io">>, << >>}

\* The answers of the network during one call: MaxAttempts answers for the
\* unofficial endpoint, one for each other provider.  The unofficial
\* endpoint is not asked again after an answer other than a failure; the
\* answers it would have given are left as failures.
Networks ==
  {[provider \in {"google_api", "google_unofficial", "mymemory"} |->
      IF provider = "google_unofficial" THEN unofficial
      ELSE IF provider = "google_api" THEN <<api>> ELSE <<mymemory>>] :
     unofficial \in {a \in [1..MaxAttempts -> Answers] :
                       \A i \in 1..MaxAttempts, j \in 1..MaxAttempts :
                         (i < j /\ a[i] # "error") => a[j] = "error"},
     api \in Answers, mymemory \in Answers}

\* A new process: the provider and the key come from the environment.
InitTranslate ==
  /\ source = EmptyTable
  /\ applications = EmptyTable
  /\ status_pins = EmptyTable
  /\ committed = commit(NewDb)
  /\ lastOp = "init"
  /\ created = {} /\ deleted = {} /\ fetched = {}
  /\ call = NoCall
  /\ ret = NoRet
  /\ rate_limited = {}
  /\ rows = {}
  /\ writers = NoWriters
  /\ translator \in
       {[NewTranslator EXCEPT !.translate_provider = provider,
                              !.google_translate_api_key = key] :
          provider \in {"google_unofficial", "google_api"}, key \in BOOLEAN}

\* One call of translate_to_russian.
TranslateToRussian ==
  \E text \in Descriptions, net \in Networks :
    \E r \in {translate_text(translator, text, net)} :
      /\ call' = [fn |-> "translate_to_russian", arg |-> text]
      /\ ret' = [value |-> r.value, requests |-> r.requests]
      /\ translator' = r.tr
      /\ rate_limited' = rate_limited \cup
           {r.requests[i].provider : i \in {j \in 1..Len(r.requests) :
                                             r.requests[j].answer = "429"}}
      /\ UNCHANGED <<storeVars, writerVars>>

NextTranslate ==
  \/ TranslateToRussian

SpecTranslate == InitTranslate /\ [][NextTranslate]_vars

----------------------------------------------------------------------------
(* The parser package (src/parser).  Its texts are sequences of single     *)
(* characters.                                                             *)

\* Python's None for an optional text.
Null == <<"None">>

\* s[i - 1:].startswith(m)
MatchesAt(s, i, m) ==
  /\ i + Len(m) - 1 <= Len(s)
  /\ \A k \in 1..Len(m) : s[i + k - 1] = m[k]

\* m in s
Contains(s, m) == \E i \in 1..(Len(s) - Len(m) + 1) : MatchesAt(s, i, m)

\* s[n:]
Drop(s, n) == SubSeq(s, n + 1, Len(s))

applied_markers ==
  <<<<"y", "o", "u", "r", " ", "a", "p", "p", "l", "i", "c", "a", "t", "i",
        "o", "n", " ", "w", "a", "s", " ", "s", "e", "n", "t">>,
    <<"a", "p", "p", "l", "i", "c", "a", "t", "i", "o", "n", " ", "s", "u",
        "b", "m", "i", "t", "t", "e", "d">>>>

auto_reply_markers ==
  <<<<"w", "e", " ", "r", "e", "c", "e", "i", "v", "e", "d", " ", "y", "o",
        "u", "r", " ", "a", "p", "p", "l", "i", "c", "a", "t", "i", "o", "n">>,
    <<"t", "h", "a", "n", "k", " ", "y", "o", "u", " ", "f", "o", "r", " ",
        "a", "p", "p", "l", "y", "i", "n", "g">>>>

interview_markers ==
  <<<<"i", "n", "t", "e", "r", "v", "i", "e", "w">>,
    <<"s", "c", "h", "e", "d", "u", "l", "e", " ", "a", " ", "c", "a", "l", "l">>,
    <<"i", "n", "v", "i", "t", "e", " ", "y", "o", "u", " ", "t", "o">>>>

reject_markers ==
  <<<<"w", "e", " ", "r", "e", "g", "r", "e", "t">>,
    <<"n", "o", "t", " ", "m", "o", "v", "i", "n", "g", " ", "f", "o", "r",
        "w", "a", "r", "d">>,
    <<"u", "n", "f", "o", "r", "t", "u", "n", "a", "t", "e", "l", "y">>>>

\* any(marker in lowered for marker in markers)
AnyMarker(lowered, markers) ==
  \E i \in 1..Len(markers) : Contains(lowered, markers[i])

\* Mutant of detect_email_type: the reject markers are tried before the
\* interview markers.
detect_email_type_reject_first(text) ==
  LET lowered == Lower(text)
  IN  IF AnyMarker(lowered, applied_markers) THEN "applied"
      ELSE IF AnyMarker(lowered, auto_reply_markers) THEN "auto_reply"
      ELSE IF AnyMarker(lowered, reject_markers) THEN "reject"
      ELSE IF AnyMarker(lowered, interview_markers) THEN "interview"
      ELSE "unknown"

detect_email_type(text) ==
  LET lowered == Lower(text)
  IN  IF AnyMarker(lowered, applied_markers) THEN "applied"
      ELSE IF AnyMarker(lowered, auto_reply_markers) THEN "auto_reply"
      ELSE IF AnyMarker(lowered, interview_markers) THEN "interview"
      ELSE IF AnyMarker(lowered, reject_markers) THEN "reject"
      ELSE "unknown"

\* Mutant of detect_stage: a type without an entry gets no stage.
detect_stage_fail_closed(email_type) ==
  CASE email_type \in {"applied", "auto_reply"} -> "Applied"
    [] email_type = "interview" -> "Interview"
    [] email_type = "reject" -> "Rejected"
    [] OTHER -> "Unknown"

\* mapping.get(email_type, "Applied")
detect_stage(email_type) ==
  CASE email_type = "applied" -> "Applied"
    [] email_type = "auto_reply" -> "Applied"
    [] email_type = "interview" -> "Interview"
    [] email_type = "reject" -> "Rejected"
    [] email_type = "unknown" -> "Applied"
    [] OTHER -> "Applied"

(* normalize_email.  The texts of the model carry no character reference,  *)
(* so html.unescape leaves them as they are.                               *)

\* The position of the first c in s, 0 when there is none.
IndexOf(s, c) ==
  IF \E i \in 1..Len(s) : s[i] = c
  THEN CHOOSE i \in 1..Len(s) : s[i] = c /\ \A j \in 1..(i - 1) : s[j] # c
  ELSE 0

\* One left-to-right pass of re.sub or str.replace: the characters of
\* mapped at the positions where keep holds.
Rewrite(keep, mapped) ==
  Only({[k \in 1..Len(kept) |-> mapped[kept[k]]] :
          kept \in {SelectSeq([i \in 1..Len(mapped) |-> i], LAMBDA i : keep[i])}})

\* The position of the ">" that closes a tag opened at i: the first ">"
\* after i, with a character that is no ">" before it; 0 when there is none.
TagEnd(s, i) ==
  IF s[i] = "<" /\ i < Len(s) /\ s[i + 1] # ">" /\ IndexOf(Drop(s, i), ">") > 0
  THEN i + IndexOf(Drop(s, i), ">")
  ELSE 0

\* re.sub(r"<[^>]+>", " ", clean): a position inside a match that starts
\* before it is dropped, the start of a match becomes a space.
StripTags(s) ==
  Rewrite([k \in 1..Len(s) |-> ~\E i \in 1..(k - 1) : TagEnd(s, i) >= k],
          [k \in 1..Len(s) |-> IF TagEnd(s, k) > 0 THEN " " ELSE s[k]])

\* clean.replace("\r\n", "\n").replace("\r", "\n")
UnixNewlines(s) ==
  Rewrite([k \in 1..Len(s) |-> ~(s[k] = "\n" /\ k > 1 /\ s[k - 1] = "\r")],
          [k \in 1..Len(s) |-> IF s[k] = "\r" THEN "\n" ELSE s[k]])

\* re.sub(r"[ \t]+", " ", clean)
CollapseBlanks(s) ==
  Rewrite([k \in 1..Len(s) |->
             ~(s[k] \in {" ", "\t"} /\ k > 1 /\ s[k - 1] \in {" ", "\t"})],
          [k \in 1..Len(s) |-> IF s[k] = "\t" THEN " " ELSE s[k]])

\* re.sub(r"\n{3,}", "\n\n", clean)
CollapseNewlines(s) ==
  Rewrite([k \in 1..Len(s) |->
             ~(s[k] = "\n" /\ k > 2 /\ s[k - 1] = "\n" /\ s[k - 2] = "\n")],
          s)

\* clean.split("\n")
RECURSIVE SplitLines(_)
SplitLines(s) ==
  IF IndexOf(s, "\n") = 0 THEN <<s>>
  ELSE <<SubSeq(s, 1, IndexOf(s, "\n") - 1)>> \o SplitLines(Drop(s, IndexOf(s, "\n")))

\* sep.join(lines)
RECURSIVE Join(_, _)
Join(lines, sep) ==
  IF lines = << >> THEN << >>
  ELSE IF Len(lines) = 1 THEN lines[1]
  ELSE lines[1] \o sep \o Join(Tail(lines), sep)

normalize_email(text) ==
  Only({Strip(Join([i \in 1..Len(lines) |-> Strip(lines[i])], <<"\n">>)) :
          lines \in {SplitLines(CollapseNewlines(CollapseBlanks(
                                  UnixNewlines(StripTags(text)))))}})

(* extract_job_link *)

HttpScheme ==
  <<"h", "t", "t", "p", ":", "/", "/">>
HttpsScheme ==
  <<"h", "t", "t", "p", "s", ":", "/", "/">>

\* The last position of the run of non-space characters that holds i.
RunEnd(s, i) ==
  LET stops == {k \in (i + 1)..(Len(s) + 1) : k > Len(s) \/ IsSpace(s[k]) \/ s[k] = "\r"}
  IN  (CHOOSE j \in stops : \A k \in stops : j <= k) - 1

\* r"https?://[^\s]+" matches at position i of s.
UrlStartsAt(s, i) ==
  \/ MatchesAt(s, i, HttpScheme) /\ RunEnd(s, i) >= i + Len(HttpScheme)
  \/ MatchesAt(s, i, HttpsScheme) /\ RunEnd(s, i) >= i + Len(HttpsScheme)

\* re.findall(r"https?://[^\s]+", text): a match starts where none that
\* started before it is still running.
FindUrls(s) ==
  Only({[k \in 1..Len(starts) |-> SubSeq(s, starts[k], RunEnd(s, starts[k]))] :
          starts \in {SelectSeq([i \in 1..Len(s) |-> i],
                        LAMBDA i : /\ UrlStartsAt(s, i)
                                   /\ ~\E h \in 1..(i - 1) :
                                         UrlStartsAt(s, h) /\ RunEnd(s, h) >= i)}})

\* url.rstrip(".,;)")
RECURSIVE RStripPunct(_)
RStripPunct(s) ==
  IF s # << >> /\ s[Len(s)] \in {".", ",", ";", ")"}
  THEN RStripPunct(SubSeq(s, 1, Len(s) - 1)) ELSE s

noise_fragments ==
  <<<<"/", "h", "e", "l", "p", "/">>,
    <<"u", "n", "s", "u", "b", "s", "c", "r", "i", "b", "e">>,
    <<"e", "m", "a", "i", "l", "-", "u", "n", "s", "u", "b", "s", "c", "r",
        "i", "b", "e">>,
    <<"/", "m", "y", "p", "r", "e", "f", "e", "r", "e", "n", "c", "e", "s", "/">>,
    <<"/", "p", "s", "e", "t", "t", "i", "n", "g", "s", "/">>,
    <<"/", "s", "h", "a", "r", "e", "?">>,
    <<"/", "f", "e", "e", "d", "/">>,
    <<"t", "r", "k", "e", "m", "a", "i", "l", "=">>,
    <<"s", "e", "c", "u", "r", "i", "t", "y", "h", "e", "l", "p">>>>

\* The fragments rank(url) looks for.
RankWords ==
  [linkedin |-> <<"l", "i", "n", "k", "e", "d", "i", "n", ".", "c", "o", "m">>,
   jobs_view |-> <<"/", "j", "o", "b", "s", "/", "v", "i", "e", "w", "/">>,
   company |-> <<"/", "c", "o", "m", "p", "a", "n", "y", "/">>,
   jobs_search |-> <<"/", "j", "o", "b", "s", "/", "s", "e", "a", "r", "c", "h", "/">>,
   greenhouse_io |-> <<"g", "r", "e", "e", "n", "h", "o", "u", "s", "e", ".", "i", "o">>,
   greenhouse |-> <<"g", "r", "e", "e", "n", "h", "o", "u", "s", "e">>,
   lever_co |-> <<"l", "e", "v", "e", "r", ".", "c", "o">>,
   lever |-> <<"l", "e", "v", "e", "r">>,
   workday |-> <<"w", "o", "r", "k", "d", "a", "y">>]

\* any(fragment in lower for fragment in noise_fragments)
IsNoiseUrl(url) == AnyMarker(RStripPunct(Lower(url)), noise_fragments)

\* rank(url): the source priority, then the length.
rank(url) ==
  <<Only({IF /\ Contains(lower, RankWords.linkedin)
             /\ \/ Contains(lower, RankWords.jobs_view)
                \/ Contains(lower, RankWords.company)
                \/ Contains(lower, RankWords.jobs_search)
          THEN 0
          ELSE IF \/ Contains(lower, RankWords.greenhouse_io)
                  \/ Contains(lower, RankWords.greenhouse) THEN 1
          ELSE IF \/ Contains(lower, RankWords.lever_co)
                  \/ Contains(lower, RankWords.lever) THEN 2
          ELSE IF Contains(lower, RankWords.workday) THEN 3
          ELSE 4 : lower \in {Lower(url)}}),
    Len(url)>>

\* The position of the least of keys, the first of them on a tie: the
\* element a stable sort puts first.
FirstLeast(keys) ==
  CHOOSE i \in 1..Len(keys) :
    \A j \in 1..Len(keys) :
      \/ PriorityLess(keys[i], keys[j])
      \/ (keys[i] = keys[j] /\ i <= j)

\* sorted(filtered, key=rank)[0]
FirstRanked(filtered) ==
  Only({filtered[FirstLeast(keys)] :
          keys \in {[i \in 1..Len(filtered) |-> rank(filtered[i])]}})

\* The URLs without a noise fragment, or all of them when each has one,
\* without their trailing punctuation.
Filtered(urls) ==
  Only({[i \in 1..Len(filtered) |-> RStripPunct(filtered[i])] :
          filtered \in {IF kept # << >> THEN kept ELSE urls :
                          kept \in {SelectSeq(urls, LAMBDA url : ~IsNoiseUrl(url))}}})

\* Mutant of extract_job_link: the noise filter is left out.
extract_job_link_unfiltered(text) ==
  Only({IF urls = << >> THEN Null
        ELSE FirstRanked([i \in 1..Len(urls) |-> RStripPunct(urls[i])]) :
          urls \in {FindUrls(text)}})

extract_job_link(text) ==
  Only({IF urls = << >> THEN Null ELSE FirstRanked(Filtered(urls)) :
          urls \in {FindUrls(text)}})

(* The other extractors of src/parser/extractors.py.  The texts of the     *)
(* model are ASCII, so the Russian alternatives of the patterns never      *)
(* match and are left out.                                                 *)

\* A value that is neither None nor "".
HasText(v) == v # Null /\ v # << >>

Capitals == {UpperCase[i] : i \in 1..Len(UpperCase)}

Smalls == {LowerCase[i] : i \in 1..Len(LowerCase)}

\* \w
IsWord(c) == c \in Capitals \cup Smalls \cup Digits \cup {"_"}

\* s[:n]
Take(s, n) == SubSeq(s, 1, IF Len(s) < n THEN Len(s) ELSE n)

\* s.find(m) + 1
Find(s, m) ==
  IF Contains(s, m)
  THEN CHOOSE i \in 1..Len(s) : MatchesAt(s, i, m) /\ \A j \in 1..(i - 1) : ~MatchesAt(s, j, m)
  ELSE 0

Least(S) == CHOOSE i \in S : \A j \in S : i <= j

\* (?m)^
LineStarts(s) == {i \in 1..Len(s) : i = 1 \/ s[i - 1] = "\n"}

\* The last position of the line position i is on.
LineEnd(s, i) ==
  IF \E k \in i..Len(s) : s[k] = "\n"
  THEN Least({k \in i..Len(s) : s[k] = "\n"}) - 1
  ELSE Len(s)

\* Where the group of \s*(.+)$ starts when \s* starts at p: the greedy \s*
\* takes the white space and gives back until "." has a character that is
\* no newline; 0 when it has none.
GroupStart(s, p) ==
  IF \E r \in p..Len(s) : s[r] # "\n" /\ \A k \in p..(r - 1) : IsSpace(s[k])
  THEN CHOOSE r \in p..Len(s) :
         /\ s[r] # "\n" /\ \A k \in p..(r - 1) : IsSpace(s[k])
         /\ \A q \in (r + 1)..Len(s) : ~(s[q] # "\n" /\ \A k \in p..(q - 1) : IsSpace(s[k]))
  ELSE 0

\* re.search(r"(?im)^(?:name):\s*(.+)$", raw_text): group(1), Null when
\* there is no match.  name ends with the colon.
HeaderValue(raw_text, name) ==
  Only({IF hits = {} THEN Null
        ELSE SubSeq(raw_text, GroupStart(raw_text, Least(hits) + Len(name)),
                    LineEnd(raw_text, GroupStart(raw_text, Least(hits) + Len(name)))) :
          hits \in {{i \in LineStarts(raw_text) :
                       /\ MatchesAt(Lower(raw_text), i, name)
                       /\ GroupStart(raw_text, i + Len(name)) > 0}}})

\* re.match(r"^(from|to|date|subject|...):", low)
IsHeaderLine(low) ==
  \E name \in {<<"f", "r", "o", "m", ":">>, <<"t", "o", ":">>, <<"d", "a", "t", "e", ":">>, <<"s", "u", "b", "j", "e", "c", "t", ":">>} : MatchesAt(low, 1, name)

\* stripped in {"-----", "----------------------------------------"}
IsRule(stripped) ==
  stripped \in {[i \in 1..5 |-> "-"], [i \in 1..40 |-> "-"]}

\* The first of the first 40 lines that is no header, no rule, has 8
\* characters or more and no "@".
FirstMeaningfulLine(lines) ==
  Only({IF meaningful = {} THEN Null ELSE Strip(lines[Least(meaningful)]) :
          meaningful \in {{k \in 1..(IF Len(lines) < 40 THEN Len(lines) ELSE 40) :
                             /\ ~IsHeaderLine(Lower(Strip(lines[k])))
                             /\ ~IsRule(Strip(lines[k]))
                             /\ Len(Strip(lines[k])) >= 8
                             /\ ~Contains(lines[k], <<"@">>)}}})

extract_subject(raw_text, normalized_text) ==
  IF HeaderValue(raw_text, <<"s", "u", "b", "j", "e", "c", "t", ":">>) # Null
  THEN Strip(HeaderValue(raw_text, <<"s", "u", "b", "j", "e", "c", "t", ":">>))
  ELSE FirstMeaningfulLine(SplitLines(normalized_text))

extract_sender(raw_text) ==
  IF HeaderValue(raw_text, <<"f", "r", "o", "m", ":">>) # Null
  THEN Strip(HeaderValue(raw_text, <<"f", "r", "o", "m", ":">>))
  ELSE Null

\* \b before position i
Boundary(s, i) ==
  (i > 1 /\ IsWord(s[i - 1])) # (i <= Len(s) /\ IsWord(s[i]))

\* \bword\b at position i
WordAt(s, i, word) ==
  MatchesAt(s, i, word) /\ Boundary(s, i) /\ Boundary(s, i + Len(word))

\* The position after the [A-Z][a-z]+ that starts at i, 0 when none does.
\* What follows it in the pattern is no lower-case letter, so the run is
\* taken whole.
CapitalisedEnd(s, i) ==
  IF i + 1 <= Len(s) /\ s[i] \in Capitals /\ s[i + 1] \in Smalls
  THEN Least({k \in (i + 2)..(Len(s) + 1) : k = Len(s) + 1 \/ s[k] \notin Smalls})
  ELSE 0

\* The position after a match of [A-Z][a-z]+(?:\s[A-Z][a-z]+),\sIsrael\b
\* at position i, 0 when there is none.
TownInIsraelEnd(s, i) ==
  LET first == CapitalisedEnd(s, i)
      second == IF first > 0 /\ first <= Len(s) /\ IsSpace(s[first])
                THEN CapitalisedEnd(s, first + 1) ELSE 0
  IN  IF /\ second > 0 /\ second + 1 <= Len(s)
         /\ s[second] = "," /\ IsSpace(s[second + 1])
         /\ MatchesAt(s, second + 2, <<"I", "s", "r", "a", "e", "l">>)
         /\ Boundary(s, second + 8)
      THEN second + 8 ELSE 0

extract_location(text) ==
  Only({IF modes # {} THEN SubSeq(text, Least(modes), Least(modes) + 5)
        ELSE IF towns # {} THEN SubSeq(text, Least(towns), TownInIsraelEnd(text, Least(towns)) - 1)
        ELSE IF tel_aviv # {} /\ (israel = {} \/ Least(tel_aviv) <= Least(israel))
             THEN <<"T", "e", "l", " ", "A", "v", "i", "v">>
        ELSE IF israel # {} THEN <<"I", "s", "r", "a", "e", "l">>
        ELSE Null :
          modes \in {{i \in 1..Len(text) :
                        WordAt(text, i, <<"R", "e", "m", "o", "t", "e">>) \/ WordAt(text, i, <<"H", "y", "b", "r", "i", "d">>)}},
          towns \in {{i \in 1..Len(text) :
                        Boundary(text, i) /\ TownInIsraelEnd(text, i) > 0}},
          tel_aviv \in {{i \in 1..Len(text) : WordAt(text, i, <<"T", "e", "l", " ", "A", "v", "i", "v">>)}},
          israel \in {{i \in 1..Len(text) : WordAt(text, i, <<"I", "s", "r", "a", "e", "l">>)}}})

description_markers ==
  <<<<"j", "o", "b", " ", "d", "e", "s", "c", "r", "i", "p", "t", "i", "o", "n">>, <<"a", "b", "o", "u", "t", " ", "t", "h", "e", " ", "r", "o", "l", "e">>, <<"r", "e", "s", "p", "o", "n", "s", "i", "b", "i", "l", "i", "t", "i", "e", "s">>,
    <<"w", "h", "a", "t", " ", "y", "o", "u", "'", "l", "l", " ", "d", "o">>, <<"a", "b", "o", "u", "t", " ", "t", "h", "i", "s", " ", "j", "o", "b">>>>

extract_description(text) ==
  IF text = << >> THEN Null
  ELSE Only({IF found = {} THEN (IF Strip(Take(text, 2000)) = << >> THEN Null
                                 ELSE Strip(Take(text, 2000)))
             ELSE Take(Strip(CollapseNewlines(
                    Take(Drop(text, Find(Lower(text), description_markers[Least(found)]) - 1),
                         5000))), 5000) :
               found \in {{m \in 1..Len(description_markers) :
                             Contains(Lower(text), description_markers[m])}}})

\* parsedate_to_datetime(value).isoformat() for the Date headers the
\* e-mails of the model carry; it raises on any other value.
ParsedDates ==
  [value \in {<<"1", " ", "J", "a", "n", " ", "2", "0", "2", "4", " ", "1", "0", ":", "0", "0", " ", "+", "0", "0", "0", "0">>} |-> <<"2024-01-01T10:00:00+00:00">>]

\* path is the file: its stem and, as an ISO text, its modification time.
extract_date(raw_text, path) ==
  IF /\ HeaderValue(raw_text, <<"d", "a", "t", "e", ":">>) # Null
     /\ Strip(HeaderValue(raw_text, <<"d", "a", "t", "e", ":">>)) \in DOMAIN ParsedDates
  THEN ParsedDates[Strip(HeaderValue(raw_text, <<"d", "a", "t", "e", ":">>))]
  ELSE path.mtime

\* part.capitalize()
Capitalize(part) ==
  [i \in 1..Len(part) |->
     IF i = 1 /\ \E k \in 1..Len(LowerCase) : LowerCase[k] = part[1]
     THEN UpperCase[CHOOSE k \in 1..Len(LowerCase) : LowerCase[k] = part[1]]
     ELSE IF i = 1 THEN part[1] ELSE LowerOf(part[i])]

\* " ".join(part.capitalize() for part in base.split()) where base is the
\* text with each run of other characters than letters and digits made a
\* blank.
RECURSIVE CapitalizeWords(_)
CapitalizeWords(base) ==
  LET word == LStrip(base)
      end == Least({k \in 1..(Len(word) + 1) : k = Len(word) + 1 \/ IsSpace(word[k])})
  IN  IF word = << >> THEN << >>
      ELSE Capitalize(Take(word, end - 1)) \o
           (IF LStrip(Drop(word, end - 1)) = << >> THEN << >>
            ELSE <<" ">> \o CapitalizeWords(Drop(word, end - 1)))

\* s.split(c)
RECURSIVE SplitOn(_, _)
SplitOn(s, c) ==
  IF IndexOf(s, c) = 0 THEN <<s>>
  ELSE <<SubSeq(s, 1, IndexOf(s, c) - 1)>> \o SplitOn(Drop(s, IndexOf(s, c)), c)

_titleize_domain(domain) ==
  LET base == SplitOn(domain, ".")[1]
      words == CapitalizeWords(
                 [i \in 1..Len(base) |->
                    IF base[i] \in Capitals \cup Smalls \cup Digits THEN base[i] ELSE " "])
  IN  IF words = << >> THEN Null ELSE words

\* urlparse(url).hostname: what stands between "//" and the next "/", "?"
\* or "#", without user and port, in lower case; Null when it is empty.
Hostname(url) ==
  LET rest == Drop(url, Find(url, <<"/", "/">>) + 1)
      netloc == Take(rest, Least({k \in 1..(Len(rest) + 1) :
                                    k = Len(rest) + 1 \/ rest[k] \in {"/", "?", "#"}}) - 1)
      hostinfo == SplitOn(netloc, "@")[Len(SplitOn(netloc, "@"))]
      host == SplitOn(hostinfo, ":")[1]
  IN  IF Find(url, <<"/", "/">>) = 0 \/ host = << >> THEN Null ELSE Lower(host)

detect_domain_name_from_url(url) ==
  LET host == Hostname(url)
      parts == SplitOn(host, ".")
  IN  IF ~HasText(url) THEN Null
      ELSE IF host = Null THEN Null
      ELSE IF Contains(host, <<"l", "i", "n", "k", "e", "d", "i", "n", ".", "c", "o", "m">>) THEN Null
      ELSE IF Len(parts) < 2 THEN Null
      ELSE _titleize_domain(parts[Len(parts) - 1])

\* What the translation endpoint answers for a chunk.
TranslatedRu(chunk) == <<"ru:">> \o chunk

\* translate_to_ru: the texts of the model are one chunk; answer is "ok"
\* or "error" (requests.get raises).
translate_to_ru(text, answer) ==
  IF text = Null THEN Null
  ELSE IF Strip(text) = << >> THEN << >>
  ELSE IF answer = "ok" THEN TranslatedRu(Strip(text))
  ELSE Strip(text)

\* s.strip(chars)
RECURSIVE StripSet(_, _)
StripSet(s, chars) ==
  IF s # << >> /\ Head(s) \in chars THEN StripSet(Tail(s), chars)
  ELSE IF s # << >> /\ s[Len(s)] \in chars THEN StripSet(SubSeq(s, 1, Len(s) - 1), chars)
  ELSE s

\* The first position at or after p that holds no white space.
RECURSIVE SkipSpace(_, _)
SkipSpace(s, p) == IF p <= Len(s) /\ IsSpace(s[p]) THEN SkipSpace(s, p + 1) ELSE p

\* The position after the words matched from position i on, with \s+
\* between them, 0 when they do not match.
RECURSIVE WordsEnd(_, _, _)
WordsEnd(s, i, words) ==
  IF ~MatchesAt(s, i, Head(words)) THEN 0
  ELSE IF Len(words) = 1 THEN i + Len(Head(words))
  ELSE IF SkipSpace(s, i + Len(Head(words))) = i + Len(Head(words)) THEN 0
  ELSE WordsEnd(s, SkipSpace(s, i + Len(Head(words))), Tail(words))

\* re.sub(r"<[^>]+>", "", s)
RemoveTags(s) ==
  Rewrite([k \in 1..Len(s) |-> ~\E i \in 1..k : TagEnd(s, i) >= k], s)

\* [A-Za-z0-9&.\- ]
CompanyChars == Capitals \cup Smalls \cup Digits \cup {"&", ".", "-", " "}

\* The group of \s+([A-Z][A-Za-z0-9&.\- ]{2,limit}) when \s+ starts at p,
\* Null when it does not match; heads is what [A-Z] matches.
CompanyGroup(s, p, limit, heads) ==
  LET g == SkipSpace(s, p)
      end == Least({k \in (g + 1)..(Len(s) + 1) : k = Len(s) + 1 \/ s[k] \notin CompanyChars})
  IN  IF g > p /\ g <= Len(s) /\ s[g] \in heads /\ end - (g + 1) >= 2
      THEN SubSeq(s, g, IF end - (g + 1) > limit THEN g + limit ELSE end - 1)
      ELSE Null

\* The position after (?:sent to|at|from) at position i, 0 when none is
\* there.
SentToEnd(s, i) ==
  IF MatchesAt(s, i, <<"s", "e", "n", "t", " ", "t", "o">>) THEN i + 7
  ELSE IF MatchesAt(s, i, <<"a", "t">>) THEN i + 2
  ELSE IF MatchesAt(s, i, <<"f", "r", "o", "m">>) THEN i + 4
  ELSE 0

\* The position after application(?:\s+was)?\s+sent\s+to at position i.
ApplicationSentToEnd(s, i) ==
  IF WordsEnd(s, i, <<<<"a", "p", "p", "l", "i", "c", "a", "t", "i", "o", "n">>, <<"w", "a", "s">>, <<"s", "e", "n", "t">>, <<"t", "o">>>>) > 0
  THEN WordsEnd(s, i, <<<<"a", "p", "p", "l", "i", "c", "a", "t", "i", "o", "n">>, <<"w", "a", "s">>, <<"s", "e", "n", "t">>, <<"t", "o">>>>)
  ELSE WordsEnd(s, i, <<<<"a", "p", "p", "l", "i", "c", "a", "t", "i", "o", "n">>, <<"s", "e", "n", "t">>, <<"t", "o">>>>)

\* group(1) of the leftmost match of pattern n of extract_company in s,
\* Null when it does not match.
CompanyPattern(s, n) ==
  LET after(i) == IF n = 1 THEN SentToEnd(s, i) ELSE ApplicationSentToEnd(s, i)
      hits == {i \in 1..Len(s) : after(i) > 0 /\ CompanyGroup(s, after(i), 60, Capitals) # Null}
  IN  IF hits = {} THEN Null ELSE CompanyGroup(s, after(Least(hits)), 60, Capitals)

MonthNames ==
  {<<"j", "a", "n">>, <<"f", "e", "b">>, <<"m", "a", "r">>, <<"a", "p", "r">>, <<"m", "a", "y">>, <<"j", "u", "n">>, <<"j", "u", "l">>, <<"a", "u", "g">>,
   <<"s", "e", "p">>, <<"o", "c", "t">>, <<"n", "o", "v">>, <<"d", "e", "c">>}

_cleanup_company(value) ==
  LET stripped == StripSet(CollapseWs(value), {" ", "-", ":", ";", ",", ".", "\t"})
      low == Lower(stripped)
  IN  IF ~HasText(value) THEN Null
      ELSE IF Len(stripped) < 2 THEN Null
      ELSE IF \E i \in 1..Len(low), month \in MonthNames : WordAt(low, i, month) THEN Null
      ELSE IF low \in {<<"l", "i", "n", "k", "e", "d", "i", "n">>, <<"s", "u", "b", "j", "e", "c", "t">>} THEN Null
      ELSE IF Cardinality({i \in 1..Len(stripped) : stripped[i] \in Digits}) >= 4 THEN Null
      ELSE stripped

\* [A-Za-z0-9._%+-]
LocalChars == Capitals \cup Smalls \cup Digits \cup {".", "_", "%", "+", "-"}

\* [A-Za-z0-9.-]
DomainChars == Capitals \cup Smalls \cup Digits \cup {".", "-"}

\* What ([A-Za-z0-9.-]+\.[A-Za-z]{2,}) matches after the "@" at position
\* a: the longest part before a dot that two letters follow, the dot and
\* the letters after it; << >> when it does not match.
DomainAfter(s, a) ==
  LET dots == {k \in (a + 2)..(Len(s) - 2) :
                 /\ \A j \in (a + 1)..k : s[j] \in DomainChars
                 /\ s[k] = "."
                 /\ s[k + 1] \in Capitals \cup Smalls
                 /\ s[k + 2] \in Capitals \cup Smalls}
      dot == CHOOSE k \in dots : \A j \in dots : j <= k
      end == Least({k \in (dot + 1)..(Len(s) + 1) :
                      k = Len(s) + 1 \/ s[k] \notin Capitals \cup Smalls})
  IN  IF dots = {} THEN << >> ELSE SubSeq(s, a + 1, end - 1)

\* group(2) of the leftmost match of the address pattern in sender, in
\* lower case; << >> when there is none.
SenderDomain(sender) ==
  LET ats == {a \in 2..Len(sender) :
                /\ sender[a] = "@" /\ sender[a - 1] \in LocalChars
                /\ DomainAfter(sender, a) # << >>}
  IN  IF ats = {} THEN << >> ELSE Lower(DomainAfter(sender, Least(ats)))

_company_from_sender(sender) ==
  LET stripped == StripSet(Strip(RemoveTags(sender)), {"\"", "'"})
      sender_name == IF Contains(stripped, <<"@">>) THEN << >> ELSE stripped
      domain == SenderDomain(sender)
  IN  IF ~HasText(sender) THEN Null
      ELSE IF /\ sender_name # << >> /\ Len(sender_name) > 2
              /\ ~Contains(Lower(sender_name), <<"l", "i", "n", "k", "e", "d", "i", "n">>)
           THEN sender_name
      ELSE IF domain = << >> THEN Null
      ELSE IF Contains(domain, <<"l", "i", "n", "k", "e", "d", "i", "n", ".">>) THEN Null
      ELSE _titleize_domain(domain)

\* The candidates of extract_company in the order it tries them: the two
\* patterns on the subject and on the text, the line after a label, the
\* "at X" pattern on the subject.
CompanyCandidates(subject, text) ==
  LET lines == SplitLines(text)
      labelled == SelectSeq([k \in 1..(Len(lines) - 1) |-> k],
                            LAMBDA k : Strip(Lower(lines[k])) \in {<<"c", "o", "m", "p", "a", "n", "y", ":">>, <<"o", "r", "g", "a", "n", "i", "z", "a", "t", "i", "o", "n", ":">>})
      ats == {i \in 1..Len(subject) :
                /\ Boundary(subject, i) /\ MatchesAt(Lower(subject), i, <<"a", "t">>)
                /\ CompanyGroup(subject, i + 2, 80, Capitals \cup Smalls) # Null}
      at == IF ats = {} THEN Null
            ELSE _cleanup_company(CompanyGroup(subject, Least(ats) + 2, 80, Capitals \cup Smalls))
  IN  <<_cleanup_company(CompanyPattern(subject, 1)), _cleanup_company(CompanyPattern(subject, 2)),
        _cleanup_company(CompanyPattern(text, 1)), _cleanup_company(CompanyPattern(text, 2))>>
      \o [k \in 1..Len(labelled) |-> _cleanup_company(lines[labelled[k] + 1])]
      \o <<IF HasText(at) /\ ~Contains(Lower(at), <<"l", "i", "n", "k", "e", "d", "i", "n">>) THEN at ELSE Null>>

\* subject and sender are Null or a text.
extract_company(subject, text, sender) ==
  Only({IF \E k \in 1..Len(candidates) : HasText(candidates[k])
        THEN candidates[Least({k \in 1..Len(candidates) : HasText(candidates[k])})]
        ELSE IF HasText(_company_from_sender(sender)) THEN _company_from_sender(sender)
        ELSE Null :
          candidates \in {CompanyCandidates(IF subject = Null THEN << >> ELSE subject, text)}})

_cleanup_role(role) ==
  LET stripped == StripSet(CollapseWs(role), {" ", "-", ":", ";", ",", ".", "\t"})
      low == Lower(stripped)
  IN  IF ~HasText(role) THEN Null
      ELSE IF Len(stripped) < 2 THEN Null
      ELSE IF low \in {<<"f", "r", "o", "m">>, <<"d", "a", "t", "e">>, <<"s", "u", "b", "j", "e", "c", "t">>} THEN Null
      ELSE IF Cardinality({i \in 1..Len(stripped) : stripped[i] = " "}) > 18 THEN Null
      ELSE IF \E fragment \in {<<"h", "i", " ">>, <<"y", "o", "u", "r", " ", "a", "p", "p", "l", "i", "c", "a", "t", "i", "o", "n", " ", "w", "a", "s", " ", "s", "e", "n", "t", " ", "t", "o">>,
                               <<"y", "o", "u", "r", " ", "s", "a", "v", "e", "d", " ", "j", "o", "b">>, <<"t", "h", "a", "n", "k", " ", "y", "o", "u">>} :
                Contains(low, fragment)
           THEN Null
      ELSE IF MatchesAt(low, 1, <<"a", "t">>) THEN Null
      ELSE stripped

\* What ends the lazy group of role pattern n at position t: a newline,
\* " at " or " in " (patterns 1 and 4), \s+position (2 and 3), an optional
\* quote and the end of the text or of the line (6).  low is s in lower
\* case.
RoleGroupEnds(s, low, t, n) ==
  IF n \in {1, 4}
  THEN \/ (t <= Len(s) /\ s[t] = "\n")
       \/ MatchesAt(low, t, <<" ", "a", "t", " ">>)
       \/ MatchesAt(low, t, <<" ", "i", "n", " ">>)
  ELSE IF n \in {2, 3}
  THEN /\ SkipSpace(s, t) > t
       /\ MatchesAt(low, SkipSpace(s, t), <<"p", "o", "s", "i", "t", "i", "o", "n">>)
  ELSE \/ t = Len(s) + 1
       \/ s[t] = "\n"
       \/ (s[t] \in {"'", "\""} /\ (t = Len(s) \/ s[t + 1] = "\n"))

\* The lazy group (.+?) that starts at g: the shortest run of one character
\* or more, without a newline, that what ends the group follows; << >>
\* when there is none.
LazyGroup(s, low, g, n) ==
  IF g > Len(s) \/ s[g] = "\n" THEN << >>
  ELSE Only({IF ends = {} THEN << >> ELSE SubSeq(s, g, Least(ends) - 1) :
               ends \in {{t \in (g + 1)..(LineEnd(s, g) + 1) : RoleGroupEnds(s, low, t, n)}}})

\* group(1) of \s+(.+?) followed by the end of pattern n, or for pattern 6
\* of \s+['"]?(.+?), when \s+ starts at p: the greedy \s+ and the optional
\* quote give back until the group matches; << >> when it does not.
RoleGroup(s, low, p, n) ==
  LET starts == {g \in (p + 1)..(IF SkipSpace(s, p) < Len(s) THEN SkipSpace(s, p) + 1 ELSE Len(s)) :
                   /\ \A k \in p..(g - 1) :
                        IsSpace(s[k]) \/ (n = 6 /\ k = g - 1 /\ k > p /\ s[k] \in {"'", "\""})
                   /\ LazyGroup(s, low, g, n) # << >>}
      \* longest white space first and, with the same white space, the
      \* quote taken
      spaces(g) == IF IsSpace(s[g - 1]) THEN g - p ELSE g - 1 - p
      best == CHOOSE g \in starts :
                \A h \in starts : spaces(h) < spaces(g) \/ (spaces(h) = spaces(g) /\ h <= g)
  IN  IF starts = {} THEN << >> ELSE LazyGroup(s, low, best, n)

\* The position after the words pattern n of extract_role starts with at
\* position i, 0 when they are not there.
RoleWordsEnd(low, i, n) ==
  IF n = 1 THEN (IF MatchesAt(low, i, <<"p", "o", "s", "i", "t", "i", "o", "n">>) THEN i + 8
                 ELSE IF MatchesAt(low, i, <<"r", "o", "l", "e">>) THEN i + 4
                 ELSE IF MatchesAt(low, i, <<"f", "o", "r", " ", "t", "h", "e", " ", "p", "o", "s", "i", "t", "i", "o", "n">>) THEN i + 16
                 ELSE 0)
  ELSE IF n = 2 THEN WordsEnd(low, i, <<<<"f", "o", "r">>, <<"t", "h", "e">>>>)
  ELSE IF n = 3 THEN (IF MatchesAt(low, i, <<"t", "h", "a", "n", "k", " ", "y", "o", "u", " ", "f", "o", "r", " ", "a", "p", "p", "l", "y", "i", "n", "g", " ", "f", "o", "r", " ", "t", "h", "e">>) THEN i + 30 ELSE 0)
  ELSE IF n = 4 THEN (IF MatchesAt(low, i, <<"a", "p", "p", "l", "i", "c", "a", "t", "i", "o", "n", " ", "f", "o", "r">>) THEN i + 15 ELSE 0)
  ELSE (IF MatchesAt(low, i, <<"a", "p", "p", "l", "y", " ", "n", "o", "w", " ", "t", "o">>) THEN i + 12 ELSE 0)

\* group(1) of the leftmost match of pattern n of extract_role in joined,
\* Null when it does not match.  low is joined in lower case.
RoleMatch(joined, low, n) ==
  Only({IF hits = {} THEN Null
        ELSE RoleGroup(joined, low, RoleWordsEnd(low, Least(hits), n), n) :
          hits \in {{i \in 1..Len(joined) :
                       /\ RoleWordsEnd(low, i, n) > 0
                       /\ RoleGroup(joined, low, RoleWordsEnd(low, i, n), n) # << >>}}})

\* re.match(r"\s*([^:]{2,120}):", subject): group(1), Null without a match.
BeforeColon(subject) ==
  LET colon == IndexOf(subject, ":")
      g == IF SkipSpace(subject, 1) < colon - 2 THEN SkipSpace(subject, 1) ELSE colon - 2
  IN  IF colon = 0 \/ g < 1 \/ colon - g > 120 THEN Null
      ELSE SubSeq(subject, g, colon - 1)

\* re.search(r"[\"...]([^\"...]{2,120})[\"...]", subject): group(1), Null
\* without a match.
Quoted(subject) ==
  LET closing(i) == i + IndexOf(Drop(subject, i), "\"")
      opens == {i \in 1..Len(subject) :
                  /\ subject[i] = "\"" /\ closing(i) > i
                  /\ closing(i) - i - 1 >= 2 /\ closing(i) - i - 1 <= 120}
  IN  IF opens = {} THEN Null
      ELSE SubSeq(subject, Least(opens) + 1, closing(Least(opens)) - 1)

\* The role the subject gives when no pattern matched, Null when it gives
\* none; stop tells that extract_role returns None at once.
SubjectRole(subject) ==
  IF Contains(Lower(subject), <<"y", "o", "u", "r", " ", "a", "p", "p", "l", "i", "c", "a", "t", "i", "o", "n", " ", "w", "a", "s", " ", "s", "e", "n", "t", " ", "t", "o">>) THEN [stop |-> TRUE, role |-> Null]
  ELSE IF HasText(_cleanup_role(BeforeColon(subject)))
       THEN [stop |-> FALSE, role |-> _cleanup_role(BeforeColon(subject))]
  ELSE [stop |-> FALSE, role |-> _cleanup_role(Quoted(subject))]

SectionNames ==
  {<<"j", "o", "b", " ", "d", "e", "s", "c", "r", "i", "p", "t", "i", "o", "n">>, <<"a", "b", "o", "u", "t", " ", "t", "h", "e", " ", "r", "o", "l", "e">>, <<"r", "e", "s", "p", "o", "n", "s", "i", "b", "i", "l", "i", "t", "i", "e", "s">>, <<"w", "h", "a", "t", " ", "y", "o", "u", "'", "l", "l", " ", "d", "o">>,
   <<"a", "b", "o", "u", "t", " ", "t", "h", "i", "s", " ", "j", "o", "b">>}

\* The first line of the text that is no header, no rule, has 6 characters
\* or more, no URL, no "@" and is no section name, cleaned up.
FirstLineRole(lines) ==
  LET meaningful == {k \in 1..Len(lines) :
                       /\ ~IsHeaderLine(Lower(Strip(lines[k])))
                       /\ ~IsRule(Strip(lines[k]))
                       /\ Len(Strip(lines[k])) >= 6
                       /\ ~Contains(lines[k], <<"h", "t", "t", "p", ":", "/", "/">>)
                       /\ ~Contains(lines[k], <<"h", "t", "t", "p", "s", ":", "/", "/">>)
                       /\ ~Contains(lines[k], <<"@">>)
                       /\ Lower(Strip(lines[k])) \notin SectionNames}
  IN  IF meaningful = {} THEN Null ELSE _cleanup_role(Strip(lines[Least(meaningful)]))

\* The candidates of the patterns of extract_role, in the order it tries
\* them.
RoleCandidates(joined, low) ==
  <<_cleanup_role(RoleMatch(joined, low, 1)), _cleanup_role(RoleMatch(joined, low, 2)),
    _cleanup_role(RoleMatch(joined, low, 3)), _cleanup_role(RoleMatch(joined, low, 4)),
    _cleanup_role(RoleMatch(joined, low, 6))>>

\* "\n".join(filter(None, [subject or "", text or ""]))
RoleSource(subject, text) ==
  Join(SelectSeq(<<IF subject = Null THEN << >> ELSE subject, text>>,
                 LAMBDA part : part # << >>), <<"\n">>)

\* subject is Null or a text.
extract_role(subject, text) ==
  Only({IF \E n \in 1..Len(candidates) : HasText(candidates[n])
        THEN candidates[Least({n \in 1..Len(candidates) : HasText(candidates[n])})]
        ELSE IF HasText(subject) /\ SubjectRole(subject).stop THEN Null
        ELSE IF HasText(subject) /\ HasText(SubjectRole(subject).role)
             THEN SubjectRole(subject).role
        ELSE FirstLineRole(SplitLines(text)) :
          candidates \in {Only({RoleCandidates(joined, Lower(joined)) :
                                  joined \in {RoleSource(subject, text)}})}})

(* parse_email.  path is the file (its stem and its modification time),    *)
(* answer what the translation endpoint does, failing the set of the       *)
(* extractors that raise in this run.  source_file, the path itself, is    *)
(* left out of the ParsedJob.                                              *)

Extractors ==
  {"extract_subject", "extract_sender", "detect_email_type", "extract_company",
   "extract_role", "extract_location", "extract_job_link", "extract_description",
   "translate_to_ru", "extract_date"}

\* Mutant of Raised: extract_location and extract_job_link share one try
\* block.
Raised_shared_try(extractor, failing) ==
  \/ extractor \in failing
  \/ extractor = "extract_job_link" /\ "extract_location" \in failing

\* The try block of the extractor ends in its except branch.
Raised(extractor, failing) == extractor \in failing

\* stem.split(" - ", 1)[1].strip() when " - " is in the stem: the subject
\* when the e-mail gives none.
StemSubject(subject, stem) ==
  IF HasText(subject) THEN subject
  ELSE IF Contains(stem, <<" ", "-", " ">>) THEN Strip(Drop(stem, Find(stem, <<" ", "-", " ">>) + 2))
  ELSE subject

ParsedJob(company, role, location, stage, job_link, description_en, description_ru, date) ==
  [company |-> company, role |-> role, location |-> location, stage |-> stage,
   job_link |-> job_link, description_en |-> description_en,
   description_ru |-> description_ru, date |-> date]

parse_email(path, raw_text, answer, failing) ==
  Only({Only({Only({ParsedJob(
          IF HasText(company) THEN company ELSE detect_domain_name_from_url(job_link),
          IF Raised("extract_role", failing) THEN Null ELSE extract_role(subject, normalized),
          IF Raised("extract_location", failing) THEN Null ELSE extract_location(normalized),
          IF Raised("detect_email_type", failing) THEN "Applied"
          ELSE detect_stage(detect_email_type(normalized)),
          job_link,
          description_en,
          IF Raised("translate_to_ru", failing) THEN description_en
          ELSE translate_to_ru(description_en, answer),
          IF Raised("extract_date", failing) THEN Null ELSE extract_date(raw_text, path)) :
            company \in {IF Raised("extract_company", failing) THEN Null
                         ELSE extract_company(subject, normalized, sender)}}) :
          subject \in {StemSubject(IF Raised("extract_subject", failing) THEN Null
                                   ELSE extract_subject(raw_text, normalized), path.stem)},
          sender \in {IF Raised("extract_sender", failing) THEN Null
                      ELSE extract_sender(raw_text)},
          job_link \in {IF Raised("extract_job_link", failing) THEN Null
                        ELSE extract_job_link(normalized)},
          description_en \in {IF Raised("extract_description", failing)
                              THEN (IF normalized # << >> THEN Take(normalized, 2000) ELSE Null)
                              ELSE extract_description(normalized)}}) :
          normalized \in {normalize_email(raw_text)}})

\* "Your application was sent to Acme."
PieceApplied ==
  <<"Y", "o", "u", "r", " ", "a", "p", "p", "l", "i", "c", "a", "t", "i",
      "o", "n", " ", "w", "a", "s", " ", "s", "e", "n", "t", " ", "t", "o",
      " ", "A", "c", "m", "e", ".">>

\* "we regret to inform you"
PieceRegret ==
  <<"w", "e", " ", "r", "e", "g", "r", "e", "t", " ", "t", "o", " ", "i",
      "n", "f", "o", "r", "m", " ", "y", "o", "u">>

\* The lines the e-mails of the model are written from: a line for each
\* category of detect_email_type, with mixed case, two markers of one
\* category, a marker that markup and a tab break, and a line with none.
EmailPieces ==
  {PieceApplied, PieceRegret,
   \* "Thank you for applying"
   <<"T", "h", "a", "n", "k", " ", "y", "o", "u", " ", "f", "o", "r", " ",
       "a", "p", "p", "l", "y", "i", "n", "g">>,
   \* "We INVITE you to an Interview"
   <<"W", "e", " ", "I", "N", "V", "I", "T", "E", " ", "y", "o", "u", " ",
       "t", "o", " ", "a", "n", " ", "I", "n", "t", "e", "r", "v", "i", "e",
       "w">>,
   \* "Unfortunately,"
   <<"U", "n", "f", "o", "r", "t", "u", "n", "a", "t", "e", "l", "y", ",">>,
   \* "not \tmoving<br>forward"
   <<"n", "o", "t", " ", "\t", "m", "o", "v", "i", "n", "g", "<", "b", "r",
       ">", "f", "o", "r", "w", "a", "r", "d">>,
   \* "Hello"
   <<"H", "e", "l", "l", "o">>}

\* The words, with a URL in each, the link texts of the model are written
\* from: one of each source priority, three with a noise fragment, with
\* upper case and with punctuation around.
LinkPieces ==
  {\* "https://www.linkedin.com/jobs/view/123"
   <<"h", "t", "t", "p", "s", ":", "/", "/", "w", "w", "w", ".", "l", "i",
       "n", "k", "e", "d", "i", "n", ".", "c", "o", "m", "/", "j", "o", "b",
       "s", "/", "v", "i", "e", "w", "/", "1", "2", "3">>,
   \* "https://www.LinkedIn.com/company/acme/"
   <<"h", "t", "t", "p", "s", ":", "/", "/", "w", "w", "w", ".", "L", "i",
       "n", "k", "e", "d", "I", "n", ".", "c", "o", "m", "/", "c", "o", "m",
       "p", "a", "n", "y", "/", "a", "c", "m", "e", "/">>,
   \* "https://boards.greenhouse.io/acme/9"
   <<"h", "t", "t", "p", "s", ":", "/", "/", "b", "o", "a", "r", "d", "s",
       ".", "g", "r", "e", "e", "n", "h", "o", "u", "s", "e", ".", "i", "o",
       "/", "a", "c", "m", "e", "/", "9">>,
   \* "https://jobs.lever.co/acme"
   <<"h", "t", "t", "p", "s", ":", "/", "/", "j", "o", "b", "s", ".", "l",
       "e", "v", "e", "r", ".", "c", "o", "/", "a", "c", "m", "e">>,
   \* "https://acme.workday.com/j"
   <<"h", "t", "t", "p", "s", ":", "/", "/", "a", "c", "m", "e", ".", "w",
       "o", "r", "k", "d", "a", "y", ".", "c", "o", "m", "/", "j">>,
   \* "https://x.io/j)."
   <<"h", "t", "t", "p", "s", ":", "/", "/", "x", ".", "i", "o", "/", "j",
       ")", ".">>,
   \* "https://x.io/unsubscribe"
   <<"h", "t", "t", "p", "s", ":", "/", "/", "x", ".", "i", "o", "/", "u",
       "n", "s", "u", "b", "s", "c", "r", "i", "b", "e">>,
   \* "https://www.linkedin.com/jobs/view/123?trkemail=a"
   <<"h", "t", "t", "p", "s", ":", "/", "/", "w", "w", "w", ".", "l", "i",
       "n", "k", "e", "d", "i", "n", ".", "c", "o", "m", "/", "j", "o", "b",
       "s", "/", "v", "i", "e", "w", "/", "1", "2", "3", "?", "t", "r", "k",
       "e", "m", "a", "i", "l", "=", "a">>,
   \* "(http://y.io/Help/x);"
   <<"(", "h", "t", "t", "p", ":", "/", "/", "y", ".", "i", "o", "/", "H",
       "e", "l", "p", "/", "x", ")", ";">>}

MaxPhrases == 2

\* The texts of at most MaxPhrases pieces, joined by sep.
TextsFrom(pieces, sep) ==
  {Join(ps, sep) : ps \in UNION {[1..n -> pieces] : n \in 0..MaxPhrases}}

\* E-mails of up to MaxPhrases lines.
EmailTexts == TextsFrom(EmailPieces, <<"\n">>)

\* Texts of up to MaxPhrases words that hold a URL.
LinkTexts == TextsFrom(LinkPieces, <<" ">>)

----------------------------------------------------------------------------
(* The functions of the ingest engine and of the parser, called on their   *)
(* own: call holds the function and its argument, ret the value returned.  *)
(* The store is not touched.                                               *)

InitFunctions ==
  /\ source = EmptyTable
  /\ applications = EmptyTable
  /\ status_pins = EmptyTable
  /\ committed = commit(NewDb)
  /\ lastOp = "init"
  /\ created = {}
  /\ deleted = {}
  /\ fetched = {}
  /\ call = NoCall
  /\ ret = NoRet
  /\ translator = NewTranslator
  /\ rate_limited = {}
  /\ rows = {}
  /\ writers = NoWriters

\* One run is one call.
Returns(fn, arg, value) ==
  /\ call = NoCall
  /\ call' = [fn |-> fn, arg |-> arg]
  /\ ret' = value
  /\ UNCHANGED <<storeVars, translatorVars, writerVars>>

\* The texts infer_status is called on: every combination of the marker
\* classes, with no, one or two job links extracted.
ClassifierTexts ==
  {Text(noise, rejection, interview, application, Unknown, offers) :
     noise \in BOOLEAN, rejection \in BOOLEAN, interview \in BOOLEAN,
     application \in BOOLEAN,
     offers \in {<< >>, TextBare.offers, TextDigest.offers}}

InferStatus ==
  \E text \in ClassifierTexts :
    Returns("infer_status", text, infer_status(text, extract_job_links(text)))

\* The links canonicalize_job_url is called on.
LinkForms ==
  {EmptyStr, JobUrl1, JobUrl1Comm, JobUrl2, SearchUrl, CompanyJobsUrl,
   <<Host, "jobs/search/", "?currentJobId=", "4", "1">>,
   <<HostIl, "jobs/view/", "4", "1", "?refId=x">>,
   <<HostIl, "comm/", "jobs/view/", "7", "/">>,
   <<HostOther, "jobs/view/", "7">>,
   <<Host, "comm/", "company/", "acme", "/">>,
   <<Host, "company/", "acme", "/jobs", "/", "?currentJobId=", "7">>,
   <<HostOther, "acme">>}

CanonicalizeJobUrl ==
  \E link_url \in LinkForms :
    Returns("canonicalize_job_url", link_url, canonicalize_job_url(link_url))

DetectEmailType ==
  \E text \in EmailTexts :
    Returns("detect_email_type", text, detect_email_type(text))

\* detect_stage is called on the five types of detect_email_type and on
\* values it never returns.
DetectStage ==
  \E email_type \in {"applied", "auto_reply", "interview", "reject", "unknown", "spam", ""} :
    Returns("detect_stage", email_type, detect_stage(email_type))

ExtractJobLink ==
  \E text \in LinkTexts :
    Returns("extract_job_link", text, extract_job_link(text))

\* parse_email is called on the e-mails of EmailTexts and on an application
\* notice followed by a line with a URL.
ParseEmail ==
  \E raw_text \in EmailTexts \cup {Join(<<PieceApplied, word>>, <<"\n">>) : word \in LinkPieces},
     failing \in SUBSET {"detect_email_type", "extract_job_link"} :
    Returns("parse_email",
            [path |-> [stem |-> <<"m", "a", "i", "l">>, mtime |-> <<"2024-02-02T08:00:00">>],
             raw_text |-> raw_text, answer |-> "ok", failing |-> failing],
            parse_email([stem |-> <<"m", "a", "i", "l">>, mtime |-> <<"2024-02-02T08:00:00">>],
                        raw_text, "ok", failing))

NextFunctions ==
  \/ InferStatus
  \/ CanonicalizeJobUrl
  \/ DetectEmailType
  \/ DetectStage
  \/ ExtractJobLink
  \/ ParseEmail

SpecFunctions == InitFunctions /\ [][NextFunctions]_vars

----------------------------------------------------------------------------
(* parse_email on whole e-mails: a file is parsed, and parsed again while  *)
(* a set of extractors raises.                                             *)

\* A file whose name holds no subject.
PlainPath == [stem |-> <<"m", "a", "i", "l">>, mtime |-> <<"2024-02-02T08:00:00">>]

\* "1 - QA at Beta.txt"
TitledPath == [stem |-> <<"1", " ", "-", " ", "Q", "A", " ", "a", "t", " ", "B", "e", "t", "a">>, mtime |-> <<"2024-03-03T09:00:00">>]

\* The e-mails parse_email is called on, each with its file and with what
\* the translation endpoint does: one with a subject, a sender, a company
\* and a location; a rejection with a LinkedIn link in a file whose name
\* holds a subject; a greeting with a link on a job board and a
\* description; one whose sender alone names the
\* company; an application for a named position with a labelled company
\* and a date that does not parse; an empty file.
Mails ==
  {[path |-> PlainPath, answer |-> "ok",
    raw_text |-> <<"S", "u", "b", "j", "e", "c", "t", ":", " ", "D", "e", "v", " ", "a", "t", " ", "A", "c", "m", "e", "\n", "F", "r", "o", "m", ":", " ", "H", "R", " ", "<", "j", "@", "b", "e", "t", "a", ".", "i", "o", ">", "\n", "s", "e", "n", "t", " ", "t", "o", " ", "A", "c", "m", "e", ".", "\n", "R", "e", "m", "o", "t", "e">>],
   [path |-> TitledPath, answer |-> "ok",
    raw_text |-> <<"w", "e", " ", "r", "e", "g", "r", "e", "t", "\n", "h", "t", "t", "p", "s", ":", "/", "/", "w", "w", "w", ".", "l", "i", "n", "k", "e", "d", "i", "n", ".", "c", "o", "m", "/", "j", "o", "b", "s", "/", "v", "i", "e", "w", "/", "1">>],
   [path |-> PlainPath, answer |-> "ok",
    raw_text |-> <<"H", "e", "l", "l", "o", "\n", "h", "t", "t", "p", "s", ":", "/", "/", "j", "o", "b", "s", ".", "l", "e", "v", "e", "r", ".", "c", "o", "/", "a", "\n", "A", "b", "o", "u", "t", " ", "t", "h", "e", " ", "r", "o", "l", "e", "\n", "B", "u", "i", "l", "d">>],
   [path |-> PlainPath, answer |-> "ok",
    raw_text |-> <<"F", "r", "o", "m", ":", " ", "j", "@", "b", "e", "t", "a", ".", "i", "o", "\n", "D", "a", "t", "e", ":", " ", "1", " ", "J", "a", "n", " ", "2", "0", "2", "4", " ", "1", "0", ":", "0", "0", " ", "+", "0", "0", "0", "0", "\n", "T", "h", "a", "n", "k", " ", "y", "o", "u", " ", "f", "o", "r", " ", "a", "p", "p", "l", "y", "i", "n", "g", "\n", "T", "e", "l", " ", "A", "v", "i", "v">>],
   [path |-> PlainPath, answer |-> "error",
    raw_text |-> <<"D", "a", "t", "e", ":", " ", "s", "o", "o", "n", "\n", "A", "p", "p", "l", "i", "c", "a", "t", "i", "o", "n", " ", "f", "o", "r", " ", "Q", "A", " ", "L", "e", "a", "d", " ", "i", "n", " ", "H", "a", "i", "f", "a", "\n", "C", "o", "m", "p", "a", "n", "y", ":", "\n", "G", "a", "m", "m", "a", "\n", "R", "a", "m", "a", "t", " ", "G", "a", "n", ",", " ", "I", "s", "r", "a", "e", "l">>],
   [path |-> PlainPath, answer |-> "ok", raw_text |-> << >>]}

ParseMail ==
  \E mail \in Mails :
    Returns("parse_email",
            [path |-> mail.path, raw_text |-> mail.raw_text, answer |-> mail.answer,
             failing |-> {}],
            parse_email(mail.path, mail.raw_text, mail.answer, {}))

\* The file parsed last is parsed again; the extractors of failing raise.
ParseMailFailing ==
  \E mail \in Mails :
    /\ call = [fn |-> "parse_email",
               arg |-> [path |-> mail.path, raw_text |-> mail.raw_text,
                        answer |-> mail.answer, failing |-> {}]]
    /\ \E failing \in (SUBSET Extractors) \ {{}} :
         /\ call' = [call EXCEPT !.arg.failing = failing]
         /\ ret' = parse_email(mail.path, mail.raw_text, mail.answer, failing)
         /\ UNCHANGED <<storeVars, translatorVars, writerVars>>

NextParse ==
  \/ ParseMail
  \/ ParseMailFailing

SpecParse == InitFunctions /\ [][NextParse]_vars

----------------------------------------------------------------------------
(* Properties *)

SyncOps == {"sync_source_dir", "sync_source", "reset_db_and_sync"}

\* The identity keys derived from the source items of a pass.
KeysOfSource(src) ==
  UNION {{RecordKey(PathOf(n), RecordsOf(src[n])[i]) : i \in 1..Len(RecordsOf(src[n]))} :
           n \in DOMAIN src}

\* C1: Manual-status survival.  A full sync pass (snapshot, then
\* sync_source_dir), and sync_source_dir alone, that re-derives the key of a record whose manualStatus
\* is a status s leaves that record with manualStatus = s and
\* currentStatus = s, whatever autoStatus the pass infers.
C1_ManualStatusSurvives ==
  [][lastOp' \in {"sync_source", "sync_source_dir"} =>
       \A k \in DOMAIN applications \cap DOMAIN applications' :
         Truthy(applications[k].manual_status) =>
           /\ applications'[k].manual_status = applications[k].manual_status
           /\ applications'[k].current_status = applications[k].manual_status]_vars

\* C1 witness: a pass has just re-synced an already stored record that the
\* user had archived, and whose source is classified as applied.
C1_Witness ==
  /\ lastOp = "sync_source"
  /\ \E k \in DOMAIN applications \ created :
       /\ applications[k].manual_status = "archive"
       /\ applications[k].auto_status = "applied"
       /\ applications[k].current_status = "archive"

\* C2: every stored record has currentStatus = manualStatus when
\* manualStatus is present, and currentStatus = autoStatus otherwise.
C2_CurrentStatusDerived ==
  \A k \in DOMAIN applications :
    applications[k].current_status =
      IF applications[k].manual_status # None
      THEN applications[k].manual_status
      ELSE applications[k].auto_status

\* C2 witness: after a pass, one record carries a manual status that
\* differs from its autoStatus and another carries none.
C2_Witness ==
  /\ lastOp \in SyncOps
  /\ \E k \in DOMAIN applications :
       /\ applications[k].manual_status # None
       /\ applications[k].manual_status # applications[k].auto_status
  /\ \E k \in DOMAIN applications : applications[k].manual_status = None

\* C3: Idempotence.  The second of two full sync passes in a row on an
\* unchanged source creates no record, deletes none and leaves every field
\* of every record as the first pass left it.
C3_Idempotent ==
  [][(lastOp = "sync_source" /\ lastOp' = "sync_source") =>
       applications' = applications]_vars

\* The job-posting id a stored record's link carries (empty when none).
JobIdOf(row) == extract_job_id(canonicalize_job_url(row.link_url))

\* C4: Identity stability.  A record whose link carries a job-posting id
\* is stored under "job::" + id, so that the records of one id are a
\* single record.
C4_JobIdIsIdentity ==
  \A k \in DOMAIN applications :
    JobIdOf(applications[k]) # << >> =>
      /\ k = <<"job::">> \o JobIdOf(applications[k])
      /\ \A j \in DOMAIN applications :
           JobIdOf(applications[j]) = JobIdOf(applications[k]) => j = k

\* C5: Pin restoration.  When a pass creates a record for a key that has a
\* pinned non-default status s, the new record has manualStatus = s and
\* currentStatus = s instead of the inferred autoStatus.
C5_PinRestored ==
  [][\A k \in (DOMAIN applications' \ DOMAIN applications) \cap DOMAIN status_pins :
       status_pins[k] # "incoming" =>
         /\ applications'[k].manual_status = status_pins[k]
         /\ applications'[k].current_status = status_pins[k]]_vars

\* C5 witness (rows disappear by tombstoning only): a pass has just
\* re-created a record and it carries the archive status the user gave its
\* tombstoned predecessor.
C5_Witness ==
  /\ lastOp = "sync_source"
  /\ \E k \in created :
       /\ applications[k].manual_status = "archive"
       /\ applications[k].current_status = "archive"
       /\ applications[k].auto_status # "archive"
       /\ k \in DOMAIN status_pins /\ status_pins[k] = "archive"

\* C6: manualStatus is never auto-derived.  While set_manual_status is
\* never called, every record's manualStatus is absent.
C6_ManualNeverAutoDerived ==
  \A k \in DOMAIN applications : applications[k].manual_status = None

\* C7: Tombstone-by-absence.  When sync_source_dir completes, the record
\* keys in the store are exactly the identity keys derived from the source
\* items of that pass.
C7_StoreMatchesSource ==
  lastOp \in SyncOps => DOMAIN applications = KeysOfSource(source)

\* C7 witness: a pass has just tombstoned a record and kept another.
C7_Witness ==
  /\ lastOp = "sync_source"
  /\ deleted # {}
  /\ DOMAIN applications \ created # {}

\* C8: a destructive reset does not lose user-visible state.  Every record
\* with currentStatus s other than incoming before reset_db_and_sync, whose
\* key the pass re-derives, has currentStatus = s afterwards.
C8_ResetKeepsStatus ==
  [][lastOp' = "reset_db_and_sync" =>
       \A k \in DOMAIN applications \cap DOMAIN applications' :
         applications[k].current_status # "incoming" =>
           applications'[k].current_status = applications[k].current_status]_vars

\* C8 witness: a reset has just re-created a record that is still archived
\* although its source is classified as applied.
C8_Witness ==
  /\ lastOp = "reset_db_and_sync"
  /\ \E k \in created \cap deleted :
       /\ applications[k].current_status = "archive"
       /\ applications[k].auto_status = "applied"

\* The postcondition of set_manual_status(record, s) as C9 states it.
C9_Post(k, s) ==
  /\ applications[k].manual_status = s
  /\ (s \notin {None, "incoming"} => k \in DOMAIN status_pins /\ status_pins[k] = s)
  /\ (s \in {None, "incoming"} => k \notin DOMAIN status_pins)

\* C9: Manual override.  After set_manual_status(record, s) the record's
\* manualStatus is s; a non-default s is the pin of the record's key; for
\* s = incoming or the none sentinel the key has no pin.
C9_ManualOverride ==
  [][\A k \in DOMAIN applications :
       \A s \in ManualChoices :
         SetManualStatusOn(k, s) => C9_Post(k, s)']_vars

\* C10: deleting records leaves the pin table unchanged.  Neither
\* sync_source_dir (upserts and tombstone deletion) nor reset_all changes
\* status_pins; within a full pass or a reset the pins are those the
\* snapshot wrote; status_pins changes only in operations that run
\* snapshot_non_incoming_statuses or set_manual_status.
C10_PinsUntouchedByDeletes ==
  [][/\ lastOp' \in {"sync_source_dir", "reset_all"} => status_pins' = status_pins
     /\ lastOp' \in {"sync_source", "reset_db_and_sync"} =>
          status_pins' = snapshot_non_incoming_statuses(Db).pins
     /\ status_pins' # status_pins =>
          lastOp' \in {"snapshot", "set_manual_status", "sync_source", "reset_db_and_sync"}]_vars

\* C10 witness: sync_source_dir has just tombstoned a record whose key is
\* still pinned.
C10_Witness ==
  /\ lastOp = "sync_source_dir"
  /\ \E k \in deleted : k \in DOMAIN status_pins

\* The file-scoped fallback key of a file.
FileScopedKey(file) == PathOf(file) \o <<"::0::no-link">>

\* C11: Identity fallback.  After a pass, a source item with no link at
\* all whose normalized company and role are both non-empty is stored
\* under "offer::" + company + "::" + role + "::" + location, and the
\* file-scoped fallback key is used only for an item without link whose
\* company or role is empty.
C11_IdentityFallback ==
  lastOp \in SyncOps =>
    \A f \in DOMAIN source :
      LET company_k == _key_part(source[f].company_fallback)
          role_k == _key_part(source[f].stated_role)
      IN  /\ (extract_job_links(source[f]) = << >> /\ company_k # << >> /\ role_k # << >>) =>
                <<"offer::">> \o company_k \o <<"::">> \o role_k \o <<"::">>
                  \in DOMAIN applications
          /\ FileScopedKey(f) \in DOMAIN applications =>
                /\ extract_job_links(source[f]) = << >>
                /\ (company_k = << >> \/ role_k = << >>)

\* The normalized company, role and location of an offer or stored row.
KeyParts(r) == <<_key_part(r.company), _key_part(r.role), _key_part(r.location)>>

\* The source items (file, posting) that carry a link without job-posting
\* id and yield a non-empty company and role.
OfferItems(src) ==
  UNION {{<<f, i>> : i \in {j \in 1..Len(src[f].offers) :
                             /\ src[f].offers[j].link # << >>
                             /\ extract_job_id(src[f].offers[j].link) = << >>
                             /\ KeyParts(src[f].offers[j])[1] # << >>
                             /\ KeyParts(src[f].offers[j])[2] # << >>}} :
           f \in DOMAIN src}

\* C12: Date is excluded from identity.  After a pass, two source items
\* that carry a link without job-posting id and yield the same normalized
\* company, role and location (company and role non-empty), but differ in
\* email date and file name, are stored as one record, not two.
C12_DateExcluded ==
  lastOp \in SyncOps =>
    \A x \in OfferItems(source), y \in OfferItems(source) :
      LET ox == source[x[1]].offers[x[2]]
          oy == source[y[1]].offers[y[2]]
      IN  (/\ KeyParts(ox) = KeyParts(oy)
           /\ EmailDate(x[1]) # EmailDate(y[1])
           /\ FileNames[x[1]] # FileNames[y[1]]) =>
            Cardinality({k \in DOMAIN applications :
                           KeyParts(applications[k]) = KeyParts(ox)}) = 1

\* C12 witness: a pass over two files of different dates that announce
\* the opening Dev at Acme behind different links has left one record.
C12_Witness ==
  /\ lastOp = "sync_source"
  /\ DOMAIN source = {1, 2}
  /\ source[1] = TextSearch /\ source[2] = TextCompanyJobs
  /\ EmailDate(1) # EmailDate(2)
  /\ DOMAIN applications = {<<"offer::", "a", "c", "m", "e", "::", "d", "e", "v", "::">>}

\* The identity keys one source item resolves to.
KeysOfFile(src, f) ==
  {RecordKey(PathOf(f), RecordsOf(src[f])[i]) : i \in 1..Len(RecordsOf(src[f]))}

DigitValue(c) == CHOOSE v \in 0..9 : <<"0", "1", "2", "3", "4", "5", "6", "7", "8", "9">>[v + 1] = c

\* A date YYYY-MM-DD as the number YYYYMMDD (0 for no date).
RECURSIVE DateNumber(_)
DateNumber(date) ==
  IF date = << >> THEN 0
  ELSE LET last == date[Len(date)]
           front == SubSeq(date, 1, Len(date) - 1)
       IN  IF last = "-" THEN DateNumber(front)
           ELSE 10 * DateNumber(front) + DigitValue(last)

\* The newest of the source items that map to key k: the one with the
\* latest email date.
NewestFileOf(src, k) ==
  CHOOSE f \in DOMAIN src :
    /\ k \in KeysOfFile(src, f)
    /\ \A g \in DOMAIN src :
         k \in KeysOfFile(src, g) => DateNumber(EmailDate(g)) <= DateNumber(EmailDate(f))

\* C13: Merge rule, content.  When several source items of one sync pass
\* map to the same identity key, the record's source file and email date
\* (and with them its other content fields) after the pass are those of
\* the newest of these items, the one with the latest email date.
C13_NewestContentWins ==
  lastOp \in SyncOps =>
    \A k \in DOMAIN applications :
      /\ applications[k].source_file = PathOf(NewestFileOf(source, k))
      /\ applications[k].email_date = EmailDate(NewestFileOf(source, k))

\* C14: Description enrichment runs only for newly created records.  A
\* sync pass that merges into an already existing record performs no
\* description fetch and no translation for it, and leaves the record's
\* original and translated description as they were before the pass.
C14_MergeKeepsDescription ==
  [][lastOp' \in {"sync_source", "sync_source_dir"} =>
       \A k \in DOMAIN applications \cap DOMAIN applications' :
         /\ k \notin fetched'
         /\ applications'[k].about_job_text_en = applications[k].about_job_text_en
         /\ applications'[k].about_job_text_ru = applications[k].about_job_text_ru]_vars

\* C14 witness: a pass has merged into a record that existed before it,
\* fetched nothing, and the record still carries a description other than
\* the one its present link would be given.
C14_Witness ==
  /\ lastOp = "sync_source"
  /\ fetched = {}
  /\ \E k \in DOMAIN applications \ created :
       /\ applications[k].about_job_text_en # << >>
       /\ applications[k].about_job_text_ru = translate_to_russian(applications[k].about_job_text_en)
       /\ applications[k].about_job_text_en #
            parse_from_job_link(canonicalize_job_url(applications[k].link_url))

\* The position of file f in the order in which a pass processes src.
PassPosition(src, f) ==
  CHOOSE i \in 1..Cardinality(DOMAIN src) : SortedFiles(src, Listing(src))[i] = f

\* The source items that resolve to several distinct identity keys.
MultiKeyFiles(src) == {f \in DOMAIN src : Cardinality(KeysOfFile(src, f)) > 1}

\* The autoStatus a pass infers for the item f.
InferredStatus(src, f) == infer_status(src[f], extract_job_links(src[f]))

\* C15 as stated: after a pass, every key of a source item that resolves
\* to n distinct keys has a record, with that item as sourceFile and the
\* item's inferred autoStatus, and none of them was tombstoned by the pass.
C15_MultiKeyItems ==
  lastOp \in SyncOps =>
    \A f \in MultiKeyFiles(source) :
      \A k \in KeysOfFile(source, f) :
        /\ k \in DOMAIN applications
        /\ applications[k].source_file = PathOf(f)
        /\ applications[k].auto_status = InferredStatus(source, f)

\* C15 amended: after a pass, every key of a source item that resolves to
\* n distinct keys has a record (none was tombstoned by the pass), and
\* each of these records to whose key no item processed later in the pass
\* maps has that item as sourceFile and the item's inferred autoStatus.
C15_MultiKeyItemsUnlessOverwritten ==
  lastOp \in SyncOps =>
    \A f \in MultiKeyFiles(source) :
      \A k \in KeysOfFile(source, f) :
        /\ k \in DOMAIN applications
        /\ (lastOp # "reset_db_and_sync" => k \notin deleted)
        /\ (\A g \in DOMAIN source :
              k \in KeysOfFile(source, g) => PassPosition(source, g) <= PassPosition(source, f)) =>
             /\ applications[k].source_file = PathOf(f)
             /\ applications[k].auto_status = InferredStatus(source, f)

\* C15 witness: a pass over a digest of two postings and a newer file
\* that announces one of them has left both records, the one of the
\* posting only the digest lists with the digest as source file and the
\* other with the newer file; both existed before the pass.
C15_Witness ==
  /\ lastOp = "sync_source"
  /\ DOMAIN source = {1, 2}
  /\ source[1] = TextDigest
  /\ Cardinality(KeysOfFile(source, 1)) = 2
  /\ created = {}
  /\ \E k \in KeysOfFile(source, 1) \ KeysOfFile(source, 2) :
       /\ k \in DOMAIN applications
       /\ applications[k].source_file = PathOf(1)
       /\ applications[k].auto_status = "incoming"
  /\ \E k \in KeysOfFile(source, 1) \cap KeysOfFile(source, 2) :
       /\ k \in DOMAIN applications
       /\ applications[k].source_file = PathOf(2)

\* C18: Ingest classifier.  infer_status never gives a text that contains
\* a noise marker the autoStatus applied, rejected or interview, whatever
\* other markers it contains; a text matching no application, rejection
\* or interview rule gets incoming if and only if at least one job link
\* was extracted from it, and manual_sort otherwise.
C18_InferStatus ==
  call.fn = "infer_status" =>
    /\ call.arg.noise => ret \notin {"applied", "rejected", "interview"}
    /\ (~call.arg.application /\ ~call.arg.rejection /\ ~call.arg.interview) =>
         /\ ret \in {"incoming", "manual_sort"}
         /\ ret = "incoming" <=> extract_job_links(call.arg) # << >>

\* C18 witness: a digest that carries a noise marker beside application,
\* rejection and interview markers, and job links, was classified incoming.
C18_Witness ==
  /\ call.fn = "infer_status"
  /\ call.arg.noise /\ call.arg.application /\ call.arg.rejection /\ call.arg.interview
  /\ extract_job_links(call.arg) # << >>
  /\ ret = "incoming"

\* The posting id of a link as C19 reads it: the digits after /jobs/view/
\* or after currentJobId=.
RECURSIVE ClaimedJobId(_)
ClaimedJobId(url) ==
  IF url = << >> THEN << >>
  ELSE IF Head(url) \in {"jobs/view/", "?currentJobId="} /\ TakeDigits(Tail(url)) # << >>
       THEN TakeDigits(Tail(url))
       ELSE ClaimedJobId(Tail(url))

\* C19: Link canonicalization.  For every link that contains a numeric
\* job-posting id as /jobs/view/<id>, /comm/jobs/view/<id> or
\* currentJobId=<id>, canonicalize_job_url returns
\* https://www.linkedin.com/{comm/}jobs/view/<id>/, and canonicalizing the
\* result again returns the same value.
C19_Canonical ==
  call.fn = "canonicalize_job_url" =>
    /\ ClaimedJobId(call.arg) # << >> =>
         ret = <<Host>> \o (IF HasCommJobsView(call.arg) THEN <<"comm/">> ELSE << >>)
                 \o <<"jobs/view/">> \o ClaimedJobId(call.arg) \o <<"/">>
    /\ canonicalize_job_url(ret) = ret

----------------------------------------------------------------------------
\* The categories of detect_email_type in their fixed order.
CategoryOrder == <<"applied", "auto_reply", "interview", "reject">>

MarkersOf(category) ==
  CASE category = "applied" -> applied_markers
    [] category = "auto_reply" -> auto_reply_markers
    [] category = "interview" -> interview_markers
    [] category = "reject" -> reject_markers

\* The positions in CategoryOrder of the categories with a marker in text.
CategoriesIn(text) ==
  {i \in 1..Len(CategoryOrder) : AnyMarker(Lower(text), MarkersOf(CategoryOrder[i]))}

\* C16 -- Classifier priority: detect_email_type returns the first category,
\* in the order applied, auto_reply, interview, reject, with a marker in the
\* lower-cased text, and unknown when no category has one; a text with "we
\* regret to inform you" and no marker of an earlier category gives reject.
C16_ClassifierPriority ==
  call.fn = "detect_email_type" =>
    \A text \in {call.arg} :
      /\ CategoriesIn(text) = {} => ret = "unknown"
      /\ \A i \in CategoriesIn(text) :
           (\A j \in CategoriesIn(text) : i <= j) => ret = CategoryOrder[i]
      /\ (Contains(Lower(text), Lower(PieceRegret))
            /\ \A j \in CategoriesIn(text) : j >= 4) => ret = "reject"

\* A text with markers of interview and of reject was classified interview.
C16_Witness ==
  /\ call.fn = "detect_email_type"
  /\ \E text \in {call.arg} : CategoriesIn(text) = {3, 4}
  /\ ret = "interview"

----------------------------------------------------------------------------
\* The lookup from e-mail type to stage, written as a total function.
StageLookup(email_type) ==
  IF email_type = "interview" THEN "Interview"
  ELSE IF email_type = "reject" THEN "Rejected"
  ELSE "Applied"

\* C17 -- Fail-open stage: the stage parse_email returns is one of Applied,
\* Interview, Rejected and is the lookup of the detected type; it is Applied
\* when type detection raises, and detect_stage gives Applied for a type it
\* does not recognise.
C17_FailOpenStage ==
  /\ call.fn = "parse_email" =>
       /\ ret.stage \in {"Applied", "Interview", "Rejected"}
       /\ "detect_email_type" \in call.arg.failing => ret.stage = "Applied"
       /\ "detect_email_type" \notin call.arg.failing =>
            \A raw_text \in {call.arg.raw_text} :
              ret.stage = StageLookup(detect_email_type(normalize_email(raw_text)))
  /\ call.fn = "detect_stage" =>
       /\ ret = StageLookup(call.arg)
       /\ call.arg \notin {"applied", "auto_reply", "interview", "reject", "unknown"} =>
            ret = "Applied"

\* parse_email ran on a rejection while type detection raised, and returned
\* the stage Applied.
C17_Witness ==
  /\ call.fn = "parse_email"
  /\ "detect_email_type" \in call.arg.failing
  /\ \E raw_text \in {call.arg.raw_text} :
       detect_email_type(normalize_email(raw_text)) = "reject"
  /\ ret.stage = "Applied"

----------------------------------------------------------------------------
\* The URLs of a text, without their trailing punctuation.
UrlsIn(text) ==
  UNION {{RStripPunct(urls[i]) : i \in 1..Len(urls)} : urls \in {FindUrls(text)}}

\* Those of urls that contain no noise fragment.
Clean(urls) == {url \in urls : ~IsNoiseUrl(url)}

\* url is in urls and none of urls has a better source priority, or the same
\* priority and a shorter length.
IsTopRanked(url, urls) ==
  /\ url \in urls
  /\ \A other \in urls : ~PriorityLess(rank(other), rank(url))

\* url is one of the shortest of urls.
IsShortest(url, urls) ==
  /\ url \in urls
  /\ \A other \in urls : Len(url) <= Len(other)

\* C20 as stated -- Job-link selection: among the URLs without a noise
\* fragment the result is the one of the best source priority, the shorter
\* on a tie; when every URL has a noise fragment the result is the shortest
\* URL; when the text has no URL the result is null.
C20_JobLinkSelection ==
  call.fn = "extract_job_link" =>
    \A urls \in {UrlsIn(call.arg)} :
      \A clean \in {Clean(urls)} :
        /\ clean # {} => IsTopRanked(ret, clean)
        /\ (urls # {} /\ clean = {}) => IsShortest(ret, urls)
        /\ urls = {} => ret = Null

\* C20 amended -- as C20, but when every URL of the text has a noise
\* fragment the result is chosen among all of them by the same ranking:
\* best source priority, the shorter on a tie.
C20_JobLinkSelectionRanked ==
  call.fn = "extract_job_link" =>
    \A urls \in {UrlsIn(call.arg)} :
      \A clean \in {Clean(urls)} :
        /\ clean # {} => IsTopRanked(ret, clean)
        /\ (urls # {} /\ clean = {}) => IsTopRanked(ret, urls)
        /\ urls = {} => ret = Null

\* Every URL of the text had a noise fragment and the link returned was not
\* the shortest of them.
C20_Witness ==
  /\ call.fn = "extract_job_link"
  /\ \E urls \in {UrlsIn(call.arg)} :
       /\ urls # {}
       /\ Clean(urls) = {}
       /\ ret \in urls
       /\ \E other \in urls : Len(other) < Len(ret)


----------------------------------------------------------------------------
(* Failures in a sync pass (SpecFaults) *)

\* The files of the directory that can be read.
ReadableSource(src) == [n \in {m \in DOMAIN src : src[m] # Unreadable} |-> src[n]]

\* C21: SourceReadFailure is never fatal.  When an item of the directory
\* cannot be read and the database refuses nothing, sync_source_dir does
\* not raise: it returns its result, every other item has been upserted
\* and the tombstone step has run, so that the store holds exactly the
\* keys of the readable items.
C21_ReadFailureNotFatal ==
  (/\ lastOp = "sync_source"
   /\ call.arg = {}
   /\ \E n \in DOMAIN source : source[n] = Unreadable)
    => /\ ~ret.raised
       /\ ret.result # << >>
       /\ DOMAIN applications = KeysOfSource(ReadableSource(source))

\* C22: PersistenceFailure is fatal for the pass.  When the database
\* refuses a statement during the upserts, the failure is raised to the
\* caller, no row is deleted by the pass, and the upserts the pass had
\* applied are not persisted: what the database file holds after the
\* failed pass, and after the user's next status change, has no record
\* that it did not hold before.
C22_PersistenceFailureFatal ==
  [][/\ (lastOp' = "sync_source" /\ call'.arg # {} /\ ret'.raised) =>
          /\ deleted' = {}
          /\ DOMAIN committed'.apps \subseteq DOMAIN applications
     /\ (lastOp = "sync_source" /\ call.arg # {} /\ ret.raised
            /\ lastOp' = "set_manual_status") =>
          DOMAIN committed'.apps \subseteq DOMAIN committed.apps]_vars


----------------------------------------------------------------------------
(* The translation providers (SpecTranslate) *)

\* The position of provider in the order the configuration prefers.
PreferenceRank(tr, provider) ==
  IF provider = "mymemory" THEN 3
  ELSE IF provider = tr.translate_provider THEN 1
  ELSE IF tr.translate_provider = "google_api" THEN 2
  ELSE IF provider = "google_unofficial" THEN 1 ELSE 2

\* The provider accepted the request and returned a text.
Succeeded(request) ==
  \/ request.answer = "ok"
  \/ request.answer = "empty" /\ request.provider # "mymemory"

\* The call was answered by the providers, not by an early return or the
\* cache.
AskedProviders(tr, text) ==
  /\ text # << >> /\ ~_looks_russian(text) /\ ~HasUrl(text)
  /\ text \notin DOMAIN tr.translation_cache

\* The provider can be asked: google_api needs a key, the unofficial
\* endpoint must not be blocked.
Available(tr, provider) ==
  /\ provider = "google_api" => tr.google_translate_api_key
  /\ provider = "google_unofficial" => ~tr.google_translate_blocked

RequestsTo(log, provider) == {i \in 1..Len(log) : log[i].provider = provider}

\* C23: Enrichment fallback.  The providers are asked in the order
\* preferred, secondary, tertiary; a provider is asked only after every
\* available provider before it has failed; the text of the first provider
\* that succeeds is returned and no provider is asked after it; when every
\* provider fails the call returns the original text.
C23_EnrichmentFallback ==
  [][AskedProviders(translator, call'.arg) =>
       \A log \in {ret'.requests} :
         /\ \A i \in 1..Len(log), j \in 1..Len(log) :
              i < j => PreferenceRank(translator, log[i].provider)
                         <= PreferenceRank(translator, log[j].provider)
         /\ \A i \in 1..Len(log) :
              \A provider \in {"google_api", "google_unofficial", "mymemory"} :
                (/\ PreferenceRank(translator, provider)
                      < PreferenceRank(translator, log[i].provider)
                 /\ Available(translator, provider))
                  => \E j \in 1..i : log[j].provider = provider /\ ~Succeeded(log[j])
         /\ \A i \in 1..Len(log) :
              Succeeded(log[i]) =>
                /\ i = Len(log)
                /\ ret'.value = IF log[i].answer = "ok"
                                THEN Translated(log[i].provider, call'.arg)
                                ELSE call'.arg
         /\ (\A i \in 1..Len(log) : ~Succeeded(log[i])) =>
              /\ ret'.value = call'.arg
              /\ \A provider \in {"google_api", "google_unofficial", "mymemory"} :
                   Available(translator, provider) => RequestsTo(log, provider) # {}]_vars

\* Two providers failed and the third translated the text.
C23_Witness ==
  /\ call.fn = "translate_to_russian"
  /\ Len(ret.requests) >= 3
  /\ ret.requests[Len(ret.requests)].provider = "mymemory"
  /\ ret.value = Translated("mymemory", call.arg)
  /\ RequestsTo(ret.requests, "google_api") # {}

\* C24: Circuit breaker.  Once any provider has answered HTTP 429, no
\* further request is sent to that provider, in the same call or in a later
\* one; the blocked flag is never cleared.
C24_CircuitBreaker ==
  [][/\ \A i \in 1..Len(ret'.requests) :
          /\ ret'.requests[i].provider \notin rate_limited
          /\ \A j \in 1..(i - 1) :
               ~(ret'.requests[j].provider = ret'.requests[i].provider
                   /\ ret'.requests[j].answer = "429")
     /\ translator.google_translate_blocked => translator'.google_translate_blocked]_vars

\* What the code does guarantee: the unofficial Google endpoint, the one
\* provider with a blocked flag, is not asked again once it has answered
\* HTTP 429, and the flag is never cleared.
UnofficialEndpointBreaker ==
  [][/\ \A i \in RequestsTo(ret'.requests, "google_unofficial") :
          /\ "google_unofficial" \notin rate_limited
          /\ \A j \in 1..(i - 1) :
               ~(ret'.requests[j].provider = "google_unofficial"
                   /\ ret'.requests[j].answer = "429")
     /\ translator.google_translate_blocked => translator'.google_translate_blocked]_vars

\* C27: Bounded enrichment.  One call for one chunk sends at most three
\* requests to the unofficial Google endpoint, none when it is blocked and
\* none after it answered HTTP 429, and at most one request to each other
\* provider; it returns a provider's text or the original.
C27_BoundedEnrichment ==
  [][AskedProviders(translator, call'.arg) =>
       \A log \in {ret'.requests} :
         /\ Cardinality(RequestsTo(log, "google_unofficial")) <= 3
         /\ Cardinality(RequestsTo(log, "google_api")) <= 1
         /\ Cardinality(RequestsTo(log, "mymemory")) <= 1
         /\ translator.google_translate_blocked => RequestsTo(log, "google_unofficial") = {}
         /\ \A i \in RequestsTo(log, "google_unofficial") :
              log[i].answer = "429" =>
                \A j \in RequestsTo(log, "google_unofficial") : j <= i
         /\ \/ ret'.value = call'.arg
            \/ \E provider \in {"google_api", "google_unofficial", "mymemory"} :
                 ret'.value = Translated(provider, call'.arg)]_vars

\* The unofficial endpoint failed three times, the other providers once
\* each, and the call returned the original text.
C27_Witness ==
  /\ call.fn = "translate_to_russian"
  /\ Cardinality(RequestsTo(ret.requests, "google_unofficial")) = 3
  /\ Len(ret.requests) = 5
  /\ ret.value = call.arg


----------------------------------------------------------------------------
(* Pins (Spec) *)

\* C30: Pin consistency.  In every state reachable from the empty store by
\* set_manual_status calls, snapshots, sync passes and resets, every record
\* whose manualStatus is present and not "incoming" has an entry in
\* status_pins for its key, and the pinned status is that manualStatus.
C30_PinConsistency ==
  \A k \in DOMAIN applications :
    (Truthy(applications[k].manual_status) /\ applications[k].manual_status # "incoming")
      => /\ k \in DOMAIN status_pins
         /\ status_pins[k] = applications[k].manual_status

\* A sync pass has merged a record the user archived, and another record
\* carries a manual status that came from a pin.
C30_Witness ==
  /\ lastOp \in SyncOps
  /\ \E k \in DOMAIN applications :
       /\ applications[k].manual_status = "archive"
       /\ status_pins[k] = "archive"
  /\ \E k \in DOMAIN applications :
       /\ Truthy(applications[k].manual_status)
       /\ applications[k].manual_status \notin {"archive", "incoming"}


----------------------------------------------------------------------------
(* The order of a pass (SpecOrder) *)

\* The rank of a status in the processing order.
StatusRank(status) ==
  CASE status = "incoming" -> 0
    [] status = "applied" -> 1
    [] status = "rejected" -> 2
    [] status = "interview" -> 3
    [] status = "manual_sort" -> 4

\* The files of src that map to the identity key k.
FilesOfKey(src, k) == {f \in DOMAIN src : k \in KeysOfFile(src, f)}

\* C29: Deterministic processing order.  sync_source_dir takes the files in
\* ascending order of (status rank, file name), incoming 0 < applied 1 <
\* rejected 2 < interview 3 < manual_sort 4; the store after the pass is the
\* same for every order in which the directory may list the files; and a
\* record to whose key several files of the pass map has the autoStatus of
\* the highest-ranked of them.
C29_DeterministicOrder ==
  [][lastOp' = "sync_source_dir" =>
       /\ {ret'.files[i] : i \in 1..Len(ret'.files)} = DOMAIN source
       /\ \A i \in 1..Len(ret'.files), j \in 1..Len(ret'.files) :
            i < j =>
              \A ri \in {StatusRank(InferredStatus(source, ret'.files[i]))},
                 rj \in {StatusRank(InferredStatus(source, ret'.files[j]))} :
                ri < rj \/ (ri = rj /\ ret'.files[i] < ret'.files[j])
       /\ \A other \in Listings(source) :
            SyncRun(Db, source, other, {}).db.apps = applications'
       /\ \A k \in DOMAIN applications' :
            FilesOfKey(source, k) # {} =>
              \E f \in FilesOfKey(source, k) :
                /\ \A h \in FilesOfKey(source, k) :
                     StatusRank(InferredStatus(source, h))
                       <= StatusRank(InferredStatus(source, f))
                /\ applications'[k].auto_status = InferredStatus(source, f)]_vars

\* The directory listed its files in another order than the pass took
\* them, and two files of different status map to one key.
C29_Witness ==
  /\ lastOp = "sync_source_dir"
  /\ call.arg # ret.files
  /\ \E k \in DOMAIN applications :
       \E f \in FilesOfKey(source, k), h \in FilesOfKey(source, k) :
         InferredStatus(source, f) # InferredStatus(source, h)


----------------------------------------------------------------------------
(* Two connections (SpecWriters) *)

\* C26: Atomic upsert by identity key.  Under every interleaving of the
\* statements of two connections that upsert the same identity key (and
\* set manual statuses), no table, committed or pending, ever holds more
\* than one record with that key.
C26_AtomicUpsert ==
  \A apps \in {rows} \cup {writers[c].view.apps : c \in Conns} :
    \A r1 \in apps, r2 \in apps : r1.record_key = r2.record_key => r1 = r2

\* A connection found no row for the key, another connection inserted and
\* committed the record meanwhile, and the first has written too.
C26_Witness ==
  \E c \in Conns :
    /\ writers[c].op = "upsert"
    /\ writers[c].pc = "commit"
    /\ writers[c].row = NoRow
    /\ rows # {}
    /\ Cardinality(writers[c].view.apps) = 1

\* C28: Re-sync never overwrites a manual status under interleaving.  When
\* set_manual_status(record, s) has run, from its UPDATE to its commit,
\* between an upsert's read of the record and the upsert's UPDATE, then
\* once the upsert has committed the record has manualStatus s and
\* currentStatus s.
C28_ManualStatusSurvivesInterleaving ==
  [][\A c \in Conns :
       (/\ writers[c].op = "upsert"
        /\ writers[c].pc = "commit"
        /\ writers'[c].pc = "idle"
        /\ writers[c].between # << >>
        /\ Truthy(writers[c].between[1]))
         => \A r \in rows' :
              r.id = writers[c].row.id =>
                /\ r.manual_status = writers[c].between[1]
                /\ r.current_status = writers[c].between[1]]_vars


----------------------------------------------------------------------------
(* Extractor isolation (SpecParse) *)

\* The extractors a field of the ParsedJob is computed from: its own and
\* those of the fields it takes as input.
FieldExtractors ==
  [company |-> {"extract_company", "extract_subject", "extract_sender", "extract_job_link"},
   role |-> {"extract_role", "extract_subject"},
   location |-> {"extract_location"},
   stage |-> {"detect_email_type"},
   job_link |-> {"extract_job_link"},
   description_en |-> {"extract_description"},
   description_ru |-> {"translate_to_ru", "extract_description"},
   date |-> {"extract_date"}]

\* A file that was parsed with no failure is parsed again with failures.
ParsedAgain ==
  /\ call.fn = "parse_email" /\ call.arg.failing = {}
  /\ call'.fn = "parse_email" /\ call'.arg.failing # {}

\* Every field none of whose extractors failed is as in the parse without
\* failure.
Isolated(base, job, failing) ==
  \A field \in DOMAIN FieldExtractors :
    FieldExtractors[field] \cap failing = {} => job[field] = base[field]

\* The fields of the failed extractors other than the subject and the
\* company: null, Applied for the stage, the text prefix for the
\* description, the original for the translated description.
FailedFields(job, normalized, failing) ==
  /\ "detect_email_type" \in failing => job.stage = "Applied"
  /\ "extract_role" \in failing => job.role = Null
  /\ "extract_location" \in failing => job.location = Null
  /\ "extract_job_link" \in failing => job.job_link = Null
  /\ "extract_description" \in failing =>
       job.description_en = IF normalized = << >> THEN Null ELSE Take(normalized, 2000)
  /\ "translate_to_ru" \in failing => job.description_ru = job.description_en
  /\ "extract_date" \in failing => job.date = Null

\* The company and the role are those of a subject and a sender that are
\* null when their extractor failed; failed is the subject then.
FailedInputs(job, arg, normalized, failed) ==
  \A subject \in {IF "extract_subject" \in arg.failing THEN failed
                  ELSE StemSubject(extract_subject(arg.raw_text, normalized), arg.path.stem)},
     sender \in {IF "extract_sender" \in arg.failing THEN Null
                 ELSE extract_sender(arg.raw_text)} :
    /\ ("extract_role" \notin arg.failing /\ "extract_subject" \in arg.failing) =>
         job.role = extract_role(subject, normalized)
    /\ ("extract_company" \notin arg.failing
        /\ arg.failing \cap {"extract_subject", "extract_sender"} # {}) =>
         \A company \in {extract_company(subject, normalized, sender)} :
           job.company = IF HasText(company) THEN company
                         ELSE detect_domain_name_from_url(job.job_link)

\* C25 as stated: Extractor isolation in parse_email.  Whatever set of
\* extractors raises, parse_email returns a ParsedJob; the field of each
\* failed extractor is null (the stage Applied, the description the text
\* prefix, the translated description the original), the subject and the
\* company included; and every field whose extractors did not fail is as in
\* the parse without failure.
C25_ExtractorIsolation ==
  [][ParsedAgain =>
       \A arg \in {call'.arg}, job \in {ret'}, base \in {ret} :
         \A normalized \in {normalize_email(arg.raw_text)} :
           /\ DOMAIN job = DOMAIN FieldExtractors
           /\ FailedFields(job, normalized, arg.failing)
           /\ "extract_company" \in arg.failing => job.company = Null
           /\ FailedInputs(job, arg, normalized, Null)
           /\ Isolated(base, job, arg.failing)]_vars

\* C25 amended: as C25, but the subject of a failed extract_subject is the
\* part of the file name after " - " when the name has one, and the
\* company of a failed extract_company is the name derived from the host
\* of the job link, null when the link gives none.
C25_ExtractorIsolationFallbacks ==
  [][ParsedAgain =>
       \A arg \in {call'.arg}, job \in {ret'}, base \in {ret} :
         \A normalized \in {normalize_email(arg.raw_text)} :
           /\ DOMAIN job = DOMAIN FieldExtractors
           /\ FailedFields(job, normalized, arg.failing)
           /\ "extract_company" \in arg.failing =>
                job.company = detect_domain_name_from_url(job.job_link)
           /\ FailedInputs(job, arg, normalized, StemSubject(Null, arg.path.stem))
           /\ Isolated(base, job, arg.failing)]_vars

\* extract_company raised on an e-mail whose job link is on a job board:
\* the company is the name of the board, the role and the link are those
\* the extractors found.
C25_Witness ==
  /\ call.fn = "parse_email"
  /\ "extract_company" \in call.arg.failing
  /\ call.arg.failing \cap {"extract_job_link", "extract_role"} = {}
  /\ ret.job_link # Null
  /\ ret.company = detect_domain_name_from_url(ret.job_link)
  /\ ret.company # Null
  /\ ret.role # Null

====
